---- MODULE Spec2Model ----
(***************************************************************************)
(* Stripe billing-portal reconciliation (BillingPortalManager) of Ghost.   *)
(*                                                                         *)
(* The manager keeps one remote billing-portal configuration in step with  *)
(* the site: start() reads the cached configuration id from the settings   *)
(* store, updates the remote configuration or (re)creates it, and writes   *)
(* the id back when it changed.  start() is an async function: every       *)
(* `await` on the Stripe facade or on SettingsModel.edit is a point where  *)
(* the provider, the site owner and other callers take steps.              *)
(*                                                                         *)
(* The provider is modelled by the set of configurations it holds: an      *)
(* update of a held configuration answers with that configuration, an      *)
(* update of one it does not hold fails with code resource_missing, and    *)
(* any call may fail with another error.  Configurations are deleted       *)
(* out-of-band (DeleteRemote), except one that a start() has just created  *)
(* and is still writing to the settings store.                             *)
(***************************************************************************)
EXTENDS Naturals, Sequences, FiniteSets, TLC

\* ---------------------------------------------------------------- bounds
MaxIds == 3            \* configurations the provider creates in one run of the model

\* ------------------------------------------------------------- constants
CONFIGURATION_ID_SETTING == "stripe_billing_portal_configuration_id"
TITLE_SETTING == "title"

NoId == 0              \* null: settingsCache.get() of a setting never written
NoUrl == "undefined"   \* this.siteUrl before configure()

Runs == {1, 2}                        \* invocations of start() that can be in flight
Ids == 1 .. MaxIds                    \* ids the provider hands out
Titles == {"Acme", "Blog"}
Urls == {"https://a.test/", "https://b.test/"}

\* Errors the Stripe facade rejects with; err.code is what the manager inspects.
ResourceMissing == [type |-> "StripeInvalidRequestError", code |-> "resource_missing"]
RateLimit == [type |-> "StripeRateLimitError", code |-> "rate_limit"]
ConnectionError == [type |-> "StripeConnectionError", code |-> "undefined"]
OtherErrors == {RateLimit, ConnectionError}
NoErr == [type |-> "none", code |-> "none"]

VARIABLES
    configured,        \* this.configured
    siteUrl,           \* this.siteUrl
    settings,          \* the settings store: key -> value
    remote,            \* ids of the configurations the provider holds
    nextId,            \* id the provider gives to the next configuration it creates
    pc,                \* per start(): "idle", "update", "create", "edit", "done"
    existingId,        \* per start(): const existingId
    configurationId,   \* per start(): const configurationId
    calls,             \* per start(): the facade calls it made, with their results
    reads,             \* per start(): the keys it read from settingsCache
    writes,            \* per start(): the values it passed to SettingsModel.edit
    outcome,           \* per start(): "none", "ok" (resolved), "threw" (rejected)
    thrown,            \* per start(): the error start() rejected with
    api,               \* StripeService: the facade's credentials, "null" or "configured"
    webhook,           \* StripeService: the webhook manager, configured / endpoint active
    linkage,           \* the local rows and columns that point at Stripe objects
    svc,               \* StripeService: the call in progress (configure, connect, disconnect)
    now,               \* the clock: what new Date() returns
    stored,            \* the raw commenting value of a member, as kept in storage
    commenting,        \* the MemberCommenting value in hand
    formatted,         \* the value whose format() is what storage holds
    codecOp,           \* the last call on MemberCommenting or its codec, and whether it threw
    containers,        \* Docker: container name -> "absent", "stopped", "running"
    ghostContainer,    \* DevGhostManager: this.ghostContainer
    gatewayContainer,  \* DevGhostManager: this.gatewayContainer
    dev,               \* DevGhostManager: the call in progress (setup)
    appContext,        \* comments-ui: member, admin, isCommentingDisabled of useAppContext()
    comment,           \* comments-ui: the comment MoreButton is rendered for
    rendered,          \* comments-ui: what MoreButton returned
    subscriptions,     \* webhooks: subscription id -> the status stored for it
    members,           \* webhooks: the e-mail addresses of the members
    processedEvents,   \* webhooks: ids of the checkout events already handled
    signupEmails,      \* webhooks: the calls of sendSignupEmail
    delivered,         \* webhooks: the deliveries received, with the response to each
    twin,              \* the JavaScript and the TypeScript manager run on one script
    frame,             \* commenting API: the frame of a disable request
    validation         \* commenting API: the call of the input validator in progress

vars == <<configured, siteUrl, settings, remote, nextId, pc, existingId,
          configurationId, calls, reads, writes, outcome, thrown,
          api, webhook, linkage, svc,
          now, stored, commenting, formatted, codecOp,
          containers, ghostContainer, gatewayContainer, dev,
          appContext, comment, rendered,
          subscriptions, members, processedEvents, signupEmails, delivered,
          twin, frame, validation>>

manager == <<configured, siteUrl>>
provider == <<remote, nextId>>
runState == <<pc, existingId, configurationId, calls, reads, writes, outcome, thrown>>
service == <<api, webhook, linkage, svc>>

\* the Stripe integration: manager, settings store, provider and service
stripe == <<configured, siteUrl, settings, remote, nextId, pc, existingId,
            configurationId, calls, reads, writes, outcome, thrown,
            api, webhook, linkage, svc>>
\* member commenting: the value object and its codec
commentingState == <<now, stored, commenting, formatted, codecOp>>
\* the e2e container manager
containerState == <<containers, ghostContainer, gatewayContainer, dev>>
\* the comment context-menu button
buttonState == <<appContext, comment, rendered>>
\* the inbound webhook path
inboundState == <<subscriptions, members, processedEvents, signupEmails, delivered>>
\* the two implementations of BillingPortalManager, compared
twinState == <<twin>>
\* the input validator of the commenting API
validatorState == <<frame, validation>>
\* what the Stripe integration does not touch
periphery == <<commentingState, containerState, buttonState, inboundState,
               twinState, validatorState>>

\* ------------------------------------------------------ getConfigurationOptions
Headline_Stale(title) == "Manage your Acme subscription"
Headline(title) == "Manage your " \o title \o " subscription"

Features ==
    [invoice_history |-> [enabled |-> TRUE],
     payment_method_update |-> [enabled |-> TRUE],
     subscription_cancel |-> [enabled |-> TRUE]]

\* The updateOnly flag is ignored: every call carries the full options.
getConfigurationOptions_AlwaysFull(updateOnly, title, url) ==
    [business_profile |-> [headline |-> Headline(title)],
     features |-> Features,
     default_return_url |-> url]

getConfigurationOptions(updateOnly, title, url) ==
    LET defaultOptions ==
            [business_profile |-> [headline |-> Headline(title)],
             features |-> Features,
             default_return_url |-> url]
    IN  IF updateOnly
        THEN [business_profile |-> defaultOptions.business_profile]
        ELSE defaultOptions

\* ------------------------------------------------------ conditions of the code
\* if (!this.configured)
IsConfigured_Always(c) == TRUE
IsConfigured(c) == c

\* if (!id)
IsAbsent_Always(id) == TRUE
IsAbsent_Never(id) == FALSE
IsAbsent(id) == id = NoId

\* if (err.code === 'resource_missing')
IsResourceMissing_CatchAll(err) == TRUE
IsResourceMissing_WrongCode(err) == err.code = "resource_not_found"
IsResourceMissing(err) == err.code = "resource_missing"

\* if (configurationId !== existingId)
ShouldPersist_Always(newId, oldId) == TRUE
ShouldPersist(newId, oldId) == newId # oldId

\* return configuration.id, after create
CreatedId_Undefined(configuration) == NoId
CreatedId(configuration) == configuration.id

\* return configuration.id, after update
UpdatedId_Undefined(configuration) == NoId
UpdatedId(configuration) == configuration.id

\* ------------------------------------------------------------ facade calls
Pending == [status |-> "pending", id |-> NoId, err |-> NoErr]
Resolved(id) == [status |-> "ok", id |-> id, err |-> NoErr]
Rejected(err) == [status |-> "error", id |-> NoId, err |-> err]

CreateCall(title, url) ==
    [op |-> "create", id |-> NoId,
     options |-> getConfigurationOptions(FALSE, title, url), result |-> Pending]

UpdateCall(id, title, url) ==
    [op |-> "update", id |-> id,
     options |-> getConfigurationOptions(TRUE, title, url), result |-> Pending]

\* the last call of the log gets its result
Settle(log, result) == [log EXCEPT ![Len(log)].result = result]

\* ------------------------------------------------------------- StripeService
LinkageKinds ==
    {"product_price_ids", "stripe_prices", "stripe_products",
     "member_stripe_customers", "offer_coupon_ids"}

Configs == [siteUrl : Urls, siteTitle : Titles]
NoConfig == [siteUrl |-> NoUrl, siteTitle |-> "undefined"]

\* what the service held when disconnect() was called
NoSnapshot == [linkage |-> {}, active |-> FALSE, api |-> "null"]

\* No call of the service is in progress.
SvcIdle ==
    [op |-> "none", pc |-> "idle", step |-> 0, config |-> NoConfig,
     before |-> NoSnapshot, trace |-> <<>>, dispatched |-> <<>>,
     raised |-> <<>>, outcome |-> "none", thrown |-> NoErr]

\* ========================================================= member commenting
MaxTime == 2           \* instants of the clock, in days from 2026-01-01

Times == 0 .. MaxTime

\* ---------------------------------------------------------- JavaScript values
Undefined == [type |-> "undefined"]
Null == [type |-> "null"]
Bool(b) == [type |-> "boolean", value |-> b]
Str(s) == [type |-> "string", value |-> s]
Num(n) == [type |-> "number", value |-> n]
Obj(fields) == [type |-> "object", fields |-> fields]
DateOf(t) == [type |-> "Date", valid |-> TRUE, time |-> t]
InvalidDate == [type |-> "Date", valid |-> FALSE, time |-> 0]

\* what a call gives back: a value, or the value it threw
Returned(v) == [threw |-> FALSE, value |-> v]
Threw(e) == [threw |-> TRUE, value |-> e]
SyntaxError == [type |-> "error", name |-> "SyntaxError"]
TypeError == [type |-> "error", name |-> "TypeError"]
RangeError == [type |-> "error", name |-> "RangeError"]
ValidationError == [type |-> "error", name |-> "ValidationError"]

\* !v
Truthy(v) ==
    CASE v.type \in {"undefined", "null"} -> FALSE
      [] v.type = "boolean" -> v.value
      [] v.type = "string" -> v.value # ""
      [] v.type = "number" -> v.value # 0
      [] OTHER -> TRUE

\* data.key
Get(data, key) ==
    IF data.type = "object" /\ key \in DOMAIN data.fields
    THEN data.fields[key]
    ELSE Undefined

\* ---------------------------------------------------------------------- Date
Digits == <<"1", "2", "3", "4", "5", "6", "7", "8", "9">>
DateText(t) == "2026-01-0" \o Digits[t + 1]
IsoText(t) == DateText(t) \o "T00:00:00.000Z"

\* date.toISOString()
toISOString(date) ==
    IF date.valid THEN Returned(Str(IsoText(date.time))) ELSE Threw(RangeError)

\* new Date(text): the ISO form and the date-only form are read, anything
\* else gives an Invalid Date
NewDate(text) ==
    IF \E t \in Times : text.value \in {IsoText(t), DateText(t)}
    THEN DateOf(CHOOSE t \in Times : text.value \in {IsoText(t), DateText(t)})
    ELSE InvalidDate

\* isNaN(date.getTime())
IsNaNTime(date) == ~date.valid

\* date < new Date()
NotAfter_Strict(date, clock) == date.valid /\ date.time < clock

\* date <= new Date()
NotAfter(date, clock) == date.valid /\ date.time <= clock

\* ---------------------------------------------------------------------- JSON
NotJson == [type |-> "invalid"]
RawText(doc) == [type |-> "string", doc |-> doc]

\* JSON.parse(raw ?? '')
JSON_parse(raw) ==
    IF raw.type = "null" \/ raw.doc = NotJson
    THEN Threw(SyntaxError)
    ELSE Returned(raw.doc)

\* JSON.stringify({...}): keys whose value is undefined are left out
JSON_stringify(object) ==
    RawText(Obj([k \in {key \in DOMAIN object : object[key] # Undefined} |-> object[k]]))

\* ---------------------------------------------------------- MemberCommenting
NoCommenting == [type |-> "none"]

\* The constructor without its check of the reason.
MemberCommenting_constructor_NoCheck(data, clock) ==
    Returned([disabled |-> data.disabled,
              disabledReason |-> data.disabledReason,
              disabledUntil |-> data.disabledUntil,
              canComment |-> IF data.disabled
                             THEN IF Truthy(data.disabledUntil)
                                  THEN NotAfter(data.disabledUntil, clock)
                                  ELSE FALSE
                             ELSE TRUE])

MemberCommenting_constructor(data, clock) ==
    IF data.disabled /\ ~Truthy(data.disabledReason)
    THEN Threw(ValidationError)
    ELSE Returned([disabled |-> data.disabled,
                   disabledReason |-> data.disabledReason,
                   disabledUntil |-> data.disabledUntil,
                   canComment |-> IF data.disabled
                                  THEN IF Truthy(data.disabledUntil)
                                       THEN NotAfter(data.disabledUntil, clock)
                                       ELSE FALSE
                                  ELSE TRUE])

MemberCommenting_enabled(clock) ==
    MemberCommenting_constructor(
        [disabled |-> FALSE, disabledReason |-> Null, disabledUntil |-> Null], clock)

MemberCommenting_disabled(reason, until, clock) ==
    MemberCommenting_constructor(
        [disabled |-> TRUE, disabledReason |-> reason, disabledUntil |-> until], clock)

\* ----------------------------------------------------- MemberCommentingCodec
\* The body of the try block of parse().
ParseBody(raw, clock) ==
    LET parsed == JSON_parse(raw)
    IN  IF parsed.threw THEN parsed
        ELSE LET data == parsed.value
             IN  IF data.type = "null" THEN Threw(TypeError)
                 ELSE IF ~Truthy(Get(data, "disabled")) THEN MemberCommenting_enabled(clock)
                 ELSE IF ~Truthy(Get(data, "disabledReason")) THEN Threw(Undefined)
                 ELSE LET disabledUntil ==
                              IF Truthy(Get(data, "disabledUntil"))
                              THEN NewDate(Get(data, "disabledUntil"))
                              ELSE Null
                      IN  IF Truthy(disabledUntil) /\ IsNaNTime(disabledUntil)
                          THEN Threw(Undefined)
                          ELSE MemberCommenting_disabled(Get(data, "disabledReason"),
                                                         disabledUntil, clock)

\* parse() without the date: disabledUntil is read as null.
MemberCommentingCodec_parse_DropsUntil(raw, clock) ==
    LET body == ParseBody(raw, clock)
    IN  IF body.threw THEN MemberCommenting_enabled(clock)
        ELSE Returned([body.value EXCEPT !.disabledUntil = Null])

\* parse(raw): whatever the try block throws is caught.
MemberCommentingCodec_parse(raw, clock) ==
    LET body == ParseBody(raw, clock)
    IN  IF body.threw THEN MemberCommenting_enabled(clock) ELSE body

\* format(commenting)
MemberCommentingCodec_format(c) ==
    LET iso == IF c.disabledUntil.type = "Date"
               THEN toISOString(c.disabledUntil)
               ELSE Returned(Undefined)
    IN  IF iso.threw THEN iso
        ELSE Returned(JSON_stringify(
                 [disabled |-> Bool(c.disabled),
                  disabledReason |-> c.disabledReason,
                  disabledUntil |-> IF iso.value = Undefined THEN Null ELSE iso.value]))

\* What storage may hold for a member.
DisabledFields == {Undefined, Null, Bool(TRUE), Bool(FALSE)}
ReasonFields == {Undefined, Null, Str(""), Str("spam")}
UntilFields ==
    {Undefined, Null, Str(""), Str("not-a-date")} \cup {Str(IsoText(t)) : t \in Times}
      \cup {Str(DateText(1))}

RawInputs ==
    {Null, RawText(NotJson), RawText(Null), RawText(Num(1))}
      \cup {JSON_stringify([disabled |-> d, disabledReason |-> r, disabledUntil |-> u]) :
              d \in DisabledFields, r \in ReasonFields, u \in UntilFields}

CodecIdle == [op |-> "none", threw |-> FALSE]

CommentingIdle ==
    /\ now = 0
    /\ stored = Null
    /\ commenting = NoCommenting
    /\ formatted = NoCommenting
    /\ codecOp = CodecIdle

\* ========================================================== e2e containers
GhostName == "ghost-e2e-worker-0"
GatewayName == "ghost-e2e-gateway-0"
ContainerNames == {GhostName, GatewayName}
NoContainer == "null"

DevIdle == [op |-> "none", pc |-> "idle", name |-> NoContainer, trace |-> <<>>,
            outcome |-> "none"]

ContainersIdle ==
    /\ containers = [n \in ContainerNames |-> "absent"]
    /\ ghostContainer = NoContainer
    /\ gatewayContainer = NoContainer
    /\ dev = DevIdle

\* ===================================================== comment context menu
NoMember == "null"

ButtonIdle ==
    /\ appContext = [member |-> NoMember, admin |-> FALSE, isCommentingDisabled |-> FALSE]
    /\ comment = [status |-> "published", member |-> NoMember]
    /\ rendered = "unrendered"

\* ============================================================ inbound webhooks
SubscriptionIds == {"sub_1"}
NoSubscription == [status |-> "none", updatedAt |-> 0]

InboundIdle ==
    /\ subscriptions = [s \in SubscriptionIds |-> NoSubscription]
    /\ members = {}
    /\ processedEvents = {}
    /\ signupEmails = <<>>
    /\ delivered = <<>>

\* ================================================= the two implementations
NoObservation == [type |-> "none"]
NoScript == [type |-> "none"]

TwinIdle == twin = [id |-> [type |-> "null"], script |-> NoScript,
                    js |-> NoObservation, ts |-> NoObservation]

\* ===================================================== commenting validator
\* no request is at hand
NoFrame == [data |-> Undefined]

ValidationIdle == [pc |-> "idle", before |-> NoFrame, trace |-> <<>>,
                   outcome |-> "none", thrown |-> [type |-> "none"]]

ValidatorIdle ==
    /\ frame = NoFrame
    /\ validation = ValidationIdle

PeripheryIdle ==
    /\ CommentingIdle /\ ContainersIdle /\ ButtonIdle /\ InboundIdle
    /\ TwinIdle /\ ValidatorIdle

\* ---------------------------------------------------------------- initial state
Init ==
    /\ configured = FALSE
    /\ siteUrl = NoUrl
    /\ settings \in {[k \in {CONFIGURATION_ID_SETTING, TITLE_SETTING} |->
                        IF k = TITLE_SETTING THEN t ELSE NoId] : t \in Titles}
    /\ remote = {}
    /\ nextId = 1
    /\ pc = [r \in Runs |-> "idle"]
    /\ existingId = [r \in Runs |-> NoId]
    /\ configurationId = [r \in Runs |-> NoId]
    /\ calls = [r \in Runs |-> <<>>]
    /\ reads = [r \in Runs |-> <<>>]
    /\ writes = [r \in Runs |-> <<>>]
    /\ outcome = [r \in Runs |-> "none"]
    /\ thrown = [r \in Runs |-> NoErr]
    /\ api = "null"
    /\ webhook = [configured |-> FALSE, active |-> FALSE]
    /\ linkage = {}
    /\ svc = SvcIdle
    /\ PeripheryIdle

\* The Stripe integration before any call, for the parts of the system that
\* run without it.
StripeIdle ==
    /\ configured = FALSE
    /\ siteUrl = NoUrl
    /\ settings = [k \in {CONFIGURATION_ID_SETTING, TITLE_SETTING} |->
                      IF k = TITLE_SETTING THEN "Acme" ELSE NoId]
    /\ remote = {}
    /\ nextId = 1
    /\ pc = [r \in Runs |-> "idle"]
    /\ existingId = [r \in Runs |-> NoId]
    /\ configurationId = [r \in Runs |-> NoId]
    /\ calls = [r \in Runs |-> <<>>]
    /\ reads = [r \in Runs |-> <<>>]
    /\ writes = [r \in Runs |-> <<>>]
    /\ outcome = [r \in Runs |-> "none"]
    /\ thrown = [r \in Runs |-> NoErr]
    /\ api = "null"
    /\ webhook = [configured |-> FALSE, active |-> FALSE]
    /\ linkage = {}
    /\ svc = SvcIdle

\* ------------------------------------------------------------------ configure
configure_ResetsCache(url) ==
    /\ siteUrl' = url
    /\ configured' = TRUE
    /\ settings' = [settings EXCEPT ![CONFIGURATION_ID_SETTING] = NoId]
    /\ UNCHANGED <<provider, runState>>
    /\ UNCHANGED <<service, periphery>>

configure(url) ==
    /\ siteUrl' = url
    /\ configured' = TRUE
    /\ UNCHANGED <<settings, provider, runState>>
    /\ UNCHANGED <<service, periphery>>

\* ---------------------------------------------------------------------- start
\* start() finishes: the promise resolves or rejects.
Finish(r, result, err) ==
    /\ pc' = [pc EXCEPT ![r] = "done"]
    /\ outcome' = [outcome EXCEPT ![r] = result]
    /\ thrown' = [thrown EXCEPT ![r] = err]

\* start() after createOrUpdateConfiguration returned id: write it if it changed.
Persist(r, id) ==
    /\ configurationId' = [configurationId EXCEPT ![r] = id]
    /\ IF ShouldPersist(id, existingId[r])
       THEN /\ writes' = [writes EXCEPT ![r] = Append(@, id)]
            /\ pc' = [pc EXCEPT ![r] = "edit"]
            /\ UNCHANGED <<outcome, thrown>>
       ELSE /\ Finish(r, "ok", NoErr)
            /\ UNCHANGED writes

\* start() past the configured check: read the cache and call the facade.
BeginReconcile(r, url) ==
    LET id == settings[CONFIGURATION_ID_SETTING]
        title == settings[TITLE_SETTING]
    IN  /\ existingId' = [existingId EXCEPT ![r] = id]
        /\ reads' = [reads EXCEPT ![r] = <<CONFIGURATION_ID_SETTING, TITLE_SETTING>>]
        /\ IF IsAbsent(id)
           THEN /\ calls' = [calls EXCEPT ![r] = <<CreateCall(title, url)>>]
                /\ pc' = [pc EXCEPT ![r] = "create"]
           ELSE /\ calls' = [calls EXCEPT ![r] = <<UpdateCall(id, title, url)>>]
                /\ pc' = [pc EXCEPT ![r] = "update"]
        /\ UNCHANGED <<configurationId, writes, outcome, thrown>>

\* start() on a manager that is not configured: return at once.
SkipReconcile(r) ==
    /\ Finish(r, "ok", NoErr)
    /\ UNCHANGED <<existingId, configurationId, calls, reads, writes>>

\* The synchronous part of start(): up to the first await.
start(r) ==
    /\ pc[r] = "idle"
    /\ IF ~IsConfigured(configured)
       THEN SkipReconcile(r)
       ELSE BeginReconcile(r, siteUrl)
    /\ UNCHANGED <<manager, settings, provider>>
    /\ UNCHANGED <<service, periphery>>

\* Reconciliation is not run concurrently with itself.
NoOtherStart(r) == \A q \in Runs \ {r} : pc[q] = "idle"

SequentialStart(r) == NoOtherStart(r) /\ start(r)

\* await this.api.updateBillingPortalConfiguration(...) resolves.
UpdateResolved(r) ==
    /\ pc[r] = "update"
    /\ calls[r][Len(calls[r])].id \in remote
    /\ LET configuration == [id |-> calls[r][Len(calls[r])].id]
       IN  /\ calls' = [calls EXCEPT ![r] = Settle(@, Resolved(configuration.id))]
           /\ Persist(r, UpdatedId(configuration))
    /\ UNCHANGED <<manager, settings, provider, existingId, reads>>
    /\ UNCHANGED <<service, periphery>>

\* The catch block swallows resource_missing and returns the id it was given.
UpdateRejected_Swallow(r, err) ==
    /\ pc[r] = "update"
    /\ err = ResourceMissing <=> calls[r][Len(calls[r])].id \notin remote
    /\ calls' = [calls EXCEPT ![r] = Settle(@, Rejected(err))]
    /\ IF IsResourceMissing(err)
       THEN Persist(r, calls[r][Len(calls[r])].id)
       ELSE /\ Finish(r, "threw", err)
            /\ UNCHANGED <<configurationId, writes>>
    /\ UNCHANGED <<manager, settings, provider, existingId, reads>>
    /\ UNCHANGED <<service, periphery>>

\* The catch block drops the stale id from the settings store before it creates.
UpdateRejected_ClearsStale(r, err) ==
    /\ pc[r] = "update"
    /\ err = ResourceMissing <=> calls[r][Len(calls[r])].id \notin remote
    /\ IF IsResourceMissing(err)
       THEN /\ calls' = [calls EXCEPT ![r] =
                   Append(Settle(@, Rejected(err)),
                          CreateCall(settings[TITLE_SETTING], siteUrl))]
            /\ reads' = [reads EXCEPT ![r] = Append(@, TITLE_SETTING)]
            /\ settings' = [settings EXCEPT ![CONFIGURATION_ID_SETTING] = NoId]
            /\ pc' = [pc EXCEPT ![r] = "create"]
            /\ UNCHANGED <<outcome, thrown>>
       ELSE /\ calls' = [calls EXCEPT ![r] = Settle(@, Rejected(err))]
            /\ Finish(r, "threw", err)
            /\ UNCHANGED <<reads, settings>>
    /\ UNCHANGED <<manager, provider, existingId, configurationId, writes>>
    /\ UNCHANGED <<service, periphery>>

\* await this.api.updateBillingPortalConfiguration(...) rejects: the catch block.
UpdateRejected(r, err) ==
    /\ pc[r] = "update"
    /\ err = ResourceMissing <=> calls[r][Len(calls[r])].id \notin remote
    /\ IF IsResourceMissing(err)
       THEN /\ calls' = [calls EXCEPT ![r] =
                   Append(Settle(@, Rejected(err)),
                          CreateCall(settings[TITLE_SETTING], siteUrl))]
            /\ reads' = [reads EXCEPT ![r] = Append(@, TITLE_SETTING)]
            /\ pc' = [pc EXCEPT ![r] = "create"]
            /\ UNCHANGED <<outcome, thrown>>
       ELSE /\ calls' = [calls EXCEPT ![r] = Settle(@, Rejected(err))]
            /\ Finish(r, "threw", err)
            /\ UNCHANGED reads
    /\ UNCHANGED <<manager, settings, provider, existingId, configurationId, writes>>
    /\ UNCHANGED <<service, periphery>>

\* await this.api.createBillingPortalConfiguration(...) resolves.
CreateResolved(r) ==
    /\ pc[r] = "create"
    /\ nextId \in Ids
    /\ LET configuration == [id |-> nextId]
       IN  /\ remote' = remote \cup {configuration.id}
           /\ nextId' = nextId + 1
           /\ calls' = [calls EXCEPT ![r] = Settle(@, Resolved(configuration.id))]
           /\ Persist(r, CreatedId(configuration))
    /\ UNCHANGED <<manager, settings, existingId, reads>>
    /\ UNCHANGED <<service, periphery>>

\* A failed create is tried again.
CreateRejected_Retry(r, err) ==
    /\ pc[r] = "create"
    /\ Len(calls[r]) < 3
    /\ calls' = [calls EXCEPT ![r] =
            Append(Settle(@, Rejected(err)), CreateCall(settings[TITLE_SETTING], siteUrl))]
    /\ UNCHANGED <<manager, settings, provider, pc, existingId, configurationId,
                   reads, writes, outcome, thrown>>
    /\ UNCHANGED <<service, periphery>>

\* await this.api.createBillingPortalConfiguration(...) rejects.
CreateRejected(r, err) ==
    /\ pc[r] = "create"
    /\ calls' = [calls EXCEPT ![r] = Settle(@, Rejected(err))]
    /\ Finish(r, "threw", err)
    /\ UNCHANGED <<manager, settings, provider, existingId, configurationId, reads, writes>>
    /\ UNCHANGED <<service, periphery>>

\* await this.SettingsModel.edit([...]) resolves.
EditResolved(r) ==
    /\ pc[r] = "edit"
    /\ settings' = [settings EXCEPT ![CONFIGURATION_ID_SETTING] = configurationId[r]]
    /\ Finish(r, "ok", NoErr)
    /\ UNCHANGED <<manager, provider, existingId, configurationId, calls, reads, writes>>
    /\ UNCHANGED <<service, periphery>>

\* The caller has the result of start(); the invocation is over.
Return(r) ==
    /\ pc[r] = "done"
    /\ pc' = [pc EXCEPT ![r] = "idle"]
    /\ existingId' = [existingId EXCEPT ![r] = NoId]
    /\ configurationId' = [configurationId EXCEPT ![r] = NoId]
    /\ calls' = [calls EXCEPT ![r] = <<>>]
    /\ reads' = [reads EXCEPT ![r] = <<>>]
    /\ writes' = [writes EXCEPT ![r] = <<>>]
    /\ outcome' = [outcome EXCEPT ![r] = "none"]
    /\ thrown' = [thrown EXCEPT ![r] = NoErr]
    /\ UNCHANGED <<manager, settings, provider>>
    /\ UNCHANGED <<service, periphery>>

\* ---------------------------------------------------------------- environment
\* A configuration is deleted at the provider, out-of-band.
DeleteRemote(id) ==
    /\ id \in remote
    /\ \A r \in Runs : ~(pc[r] = "edit" /\ configurationId[r] = id)
    /\ remote' = remote \ {id}
    /\ UNCHANGED <<manager, settings, nextId, runState>>
    /\ UNCHANGED <<service, periphery>>

\* The site title is edited.
SetTitle(t) ==
    /\ settings[TITLE_SETTING] # t
    /\ settings' = [settings EXCEPT ![TITLE_SETTING] = t]
    /\ UNCHANGED <<manager, provider, runState>>
    /\ UNCHANGED <<service, periphery>>

\* -------------------------------------------------------------- specification
Next ==
    \/ \E url \in Urls : configure(url)
    \/ \E r \in Runs : SequentialStart(r)
    \/ \E r \in Runs : UpdateResolved(r)
    \/ \E r \in Runs, err \in OtherErrors \cup {ResourceMissing} : UpdateRejected(r, err)
    \/ \E r \in Runs : CreateResolved(r)
    \/ \E r \in Runs, err \in OtherErrors : CreateRejected(r, err)
    \/ \E r \in Runs : EditResolved(r)
    \/ \E r \in Runs : Return(r)
    \/ \E id \in Ids : DeleteRemote(id)
    \/ \E t \in Titles : SetTitle(t)

Spec == Init /\ [][Next]_vars

\* ------------------------------------------------------------------ type check
TypeOK ==
    /\ configured \in BOOLEAN
    /\ siteUrl \in Urls \cup {NoUrl}
    /\ settings[CONFIGURATION_ID_SETTING] \in Ids \cup {NoId}
    /\ settings[TITLE_SETTING] \in Titles
    /\ remote \subseteq Ids
    /\ nextId \in 1 .. MaxIds + 1
    /\ \A r \in Runs :
        /\ pc[r] \in {"idle", "update", "create", "edit", "done"}
        /\ existingId[r] \in Ids \cup {NoId}
        /\ configurationId[r] \in Ids \cup {NoId}
        /\ Len(calls[r]) <= 2
        /\ outcome[r] \in {"none", "ok", "threw"}

\* ------------------------------------------------- what one start() did
FirstCall(r) == calls[r][1]
LastCall(r) == calls[r][Len(calls[r])]
CreatesOf(r) == {i \in DOMAIN calls[r] : calls[r][i].op = "create"}
UpdatesOf(r) == {i \in DOMAIN calls[r] : calls[r][i].op = "update"}

\* start() got past the configured check and read the cache
Reconciled(r) == reads[r] # <<>>

UpdateSucceeded(r) ==
    /\ calls[r] # <<>>
    /\ FirstCall(r).op = "update"
    /\ FirstCall(r).result.status = "ok"

UpdateFailed(r) ==
    /\ calls[r] # <<>>
    /\ FirstCall(r).op = "update"
    /\ FirstCall(r).result.status = "error"

UpdateMissing(r) == UpdateFailed(r) /\ FirstCall(r).result.err.code = "resource_missing"
UpdateFailedOtherwise(r) == UpdateFailed(r) /\ FirstCall(r).result.err.code # "resource_missing"

IsFullOptions(o) ==
    \E t \in Titles, u \in Urls : o = getConfigurationOptions(FALSE, t, u)

CachedId == settings[CONFIGURATION_ID_SETTING]

C3_NoCreateForLiveCachedId ==
    \A r \in Runs :
        (UpdateSucceeded(r) \/ (Reconciled(r) /\ existingId[r] \in remote))
        => CreatesOf(r) = {}

C3_Witness ==
    \E r \in Runs :
        /\ pc[r] = "done" /\ outcome[r] = "ok"
        /\ UpdateSucceeded(r) /\ existingId[r] \in remote

C5_OtherUpdateErrorPropagates ==
    \A r \in Runs :
        (pc[r] = "done" /\ UpdateFailedOtherwise(r))
        => /\ outcome[r] = "threw"
           /\ thrown[r] = FirstCall(r).result.err
           /\ CreatesOf(r) = {}
           /\ writes[r] = <<>>
           /\ CachedId = existingId[r]

C5_Witness ==
    \E r \in Runs :
        /\ pc[r] = "done" /\ UpdateFailedOtherwise(r)
        /\ thrown[r] = RateLimit

C7_UnconfiguredStartIsNoOp ==
    [][\A r \in Runs :
         (~configured /\ pc[r] = "idle" /\ pc'[r] # "idle")
         => /\ pc'[r] = "done"
            /\ outcome'[r] = "ok"
            /\ calls'[r] = <<>>
            /\ reads'[r] = <<>>
            /\ writes'[r] = <<>>
            /\ UNCHANGED <<settings, remote, nextId>>]_vars

C7_Witness ==
    \E r \in Runs :
        /\ ~configured
        /\ pc[r] = "done" /\ outcome[r] = "ok"
        /\ calls[r] = <<>> /\ reads[r] = <<>>

\* ---------------------------------------------------------------------- C8
\* C8: configure() records siteUrl and marks the manager configured; it makes
\* no call to the provider and leaves the settings store, the cached
\* configuration id included, unchanged.
C8_ConfigureOnlyRecordsInputs ==
    [][(configured' # configured \/ siteUrl' # siteUrl)
       => /\ configured'
          /\ siteUrl' \in Urls
          /\ UNCHANGED <<settings, remote, nextId>>
          /\ UNCHANGED <<pc, calls, reads, writes, outcome, thrown>>]_vars

C8_Witness ==
    /\ configured
    /\ siteUrl \in Urls
    /\ CachedId \in remote
    /\ \E r \in Runs : pc[r] = "done" /\ Reconciled(r)
                       /\ FirstCall(r).op = "create"
                       /\ FirstCall(r).options.default_return_url # siteUrl

C10_WriteIffIdChanged ==
    \A r \in Runs :
        (pc[r] \in {"edit", "done"} /\ Reconciled(r))
        => IF outcome[r] = "threw"
           THEN writes[r] = <<>>
           ELSE writes[r] = IF configurationId[r] # existingId[r]
                            THEN <<configurationId[r]>>
                            ELSE <<>>

C10_Witness ==
    \E r \in Runs :
        /\ pc[r] = "done" /\ outcome[r] = "ok" /\ Reconciled(r)
        /\ existingId[r] # NoId
        /\ configurationId[r] = existingId[r]
        /\ writes[r] = <<>>

\* ------------------------------------------------- overlapping start() calls
\* Two start() calls on a configured manager whose steps interleave freely.
\* The cached id is absent, held by the provider, or deleted at the provider
\* before the two calls begin.
InitRace ==
    /\ configured = TRUE
    /\ siteUrl \in Urls
    /\ \E t \in Titles, c \in {<<NoId, {}, 1>>, <<1, {1}, 2>>, <<1, {}, 2>>} :
        /\ settings = [k \in {CONFIGURATION_ID_SETTING, TITLE_SETTING} |->
                          IF k = TITLE_SETTING THEN t ELSE c[1]]
        /\ remote = c[2]
        /\ nextId = c[3]
    /\ pc = [r \in Runs |-> "idle"]
    /\ existingId = [r \in Runs |-> NoId]
    /\ configurationId = [r \in Runs |-> NoId]
    /\ calls = [r \in Runs |-> <<>>]
    /\ reads = [r \in Runs |-> <<>>]
    /\ writes = [r \in Runs |-> <<>>]
    /\ outcome = [r \in Runs |-> "none"]
    /\ thrown = [r \in Runs |-> NoErr]
    /\ api = "configured"
    /\ webhook = [configured |-> TRUE, active |-> TRUE]
    /\ linkage = {}
    /\ svc = SvcIdle
    /\ PeripheryIdle

NextRace ==
    \/ \E r \in Runs : start(r)
    \/ \E r \in Runs : UpdateResolved(r)
    \/ \E r \in Runs, err \in OtherErrors \cup {ResourceMissing} : UpdateRejected(r, err)
    \/ \E r \in Runs : CreateResolved(r)
    \/ \E r \in Runs, err \in OtherErrors : CreateRejected(r, err)
    \/ \E r \in Runs : EditResolved(r)
    \/ \E t \in Titles : SetTitle(t)

SpecRace == InitRace /\ [][NextRace]_vars

BothDone == \A r \in Runs : pc[r] = "done"

\* ids of the configurations that start() r created
CreatedBy(r) ==
    {calls[r][i].result.id :
        i \in {j \in DOMAIN calls[r] :
                 calls[r][j].op = "create" /\ calls[r][j].result.status = "ok"}}

\* configurations the start() calls created that the cached id does not name
Orphans == UNION {CreatedBy(r) : r \in Runs} \ {CachedId}

C13_SecondCycleOnlyUpdates ==
    \A r \in Runs :
        (pc[r] = "done" /\ Reconciled(r) /\ existingId[r] \in remote)
        => /\ Len(calls[r]) = 1
           /\ FirstCall(r).op = "update"
           /\ FirstCall(r).id = existingId[r]
           /\ writes[r] = <<>>
           /\ CachedId = existingId[r]

C13_Witness ==
    \E r \in Runs :
        /\ pc[r] = "done" /\ outcome[r] = "ok" /\ Reconciled(r)
        /\ existingId[r] \in remote
        /\ Len(calls[r]) = 1 /\ writes[r] = <<>>
        /\ CachedId = existingId[r]

\* --------------------------------------------------------------------- C14
\* C14: one start() makes at most one update call and at most one create call;
\* a create call that fails, first call or fallback after resource_missing,
\* is the last call and start() rejects with its error.
C14_NoRetry ==
    \A r \in Runs :
        /\ Cardinality(UpdatesOf(r)) <= 1
        /\ Cardinality(CreatesOf(r)) <= 1
        /\ Len(calls[r]) <= 2
        /\ \A i \in DOMAIN calls[r] :
             (calls[r][i].op = "create" /\ calls[r][i].result.status = "error")
             => /\ i = Len(calls[r])
                /\ pc[r] = "done"
                /\ outcome[r] = "threw"
                /\ thrown[r] = calls[r][i].result.err

C14_Witness ==
    \E r \in Runs :
        /\ pc[r] = "done" /\ outcome[r] = "threw"
        /\ UpdateMissing(r)
        /\ Len(calls[r]) = 2
        /\ LastCall(r).op = "create" /\ LastCall(r).result.status = "error"

DatabaseError == [type |-> "DatabaseError", code |-> "ER_LOCK_WAIT_TIMEOUT"]

ServiceErrors == OtherErrors \cup {DatabaseError}

\* The awaited calls of disconnect(), in the order of the code.
DisconnectSteps_StopFirst ==
    <<"webhookManager.stop", "Product.update", "StripePrice.del", "StripeProduct.del",
      "MemberStripeCustomer.del", "Offer.update">>
DisconnectSteps_StopBeforeOffers ==
    <<"Product.update", "StripePrice.del", "StripeProduct.del",
      "MemberStripeCustomer.del", "webhookManager.stop", "Offer.update">>
DisconnectSteps ==
    <<"Product.update", "StripePrice.del", "StripeProduct.del",
      "MemberStripeCustomer.del", "Offer.update", "webhookManager.stop">>

\* The linkage a step of disconnect() clears.
ClearedBy(step) ==
    CASE step = "Product.update" -> {"product_price_ids"}
      [] step = "StripePrice.del" -> {"stripe_prices"}
      [] step = "StripeProduct.del" -> {"stripe_products"}
      [] step = "MemberStripeCustomer.del" -> {"member_stripe_customers"}
      [] step = "Offer.update" -> {"offer_coupon_ids"}
      [] OTHER -> {}

\* The service call settles; raised logs the errors its awaited calls rejected with.
SvcFinish(result, err) ==
    [svc EXCEPT !.pc = "done", !.outcome = result, !.thrown = err,
                !.raised = IF err = NoErr THEN @ ELSE Append(@, err)]

\* connect(): dispatch StripeLiveEnabledEvent.
StripeService_connect_Disabled ==
    /\ svc.pc = "idle"
    /\ svc' = [SvcIdle EXCEPT !.op = "connect", !.pc = "done", !.outcome = "ok",
                              !.trace = <<"DomainEvents.dispatch">>,
                              !.dispatched = <<"StripeLiveDisabledEvent">>]
    /\ UNCHANGED <<manager, settings, provider, runState, api, webhook, linkage>>
    /\ UNCHANGED periphery

StripeService_connect ==
    /\ svc.pc = "idle"
    /\ svc' = [SvcIdle EXCEPT !.op = "connect", !.pc = "done", !.outcome = "ok",
                              !.trace = <<"DomainEvents.dispatch">>,
                              !.dispatched = <<"StripeLiveEnabledEvent">>]
    /\ UNCHANGED <<manager, settings, provider, runState, api, webhook, linkage>>
    /\ UNCHANGED periphery

\* configure(config) up to its first await: this.api.configure({...}) and the
\* call of webhookManager.configure.
StripeService_configure(config) ==
    /\ svc.pc = "idle"
    /\ api' = "configured"
    /\ svc' = [SvcIdle EXCEPT !.op = "configure", !.pc = "webhookConfigure",
                              !.config = config,
                              !.trace = <<"api.configure", "webhookManager.configure">>]
    /\ UNCHANGED <<manager, settings, provider, runState, webhook, linkage>>
    /\ UNCHANGED periphery

\* await this.webhookManager.configure(...) resolves; webhookManager.start() is called.
WebhookConfigureResolved ==
    /\ svc.pc = "webhookConfigure"
    /\ webhook' = [webhook EXCEPT !.configured = TRUE]
    /\ svc' = [svc EXCEPT !.pc = "webhookStart",
                          !.trace = Append(@, "webhookManager.start")]
    /\ UNCHANGED <<manager, settings, provider, runState, api, linkage>>
    /\ UNCHANGED periphery

\* billingPortalManager.start() is called before billingPortalManager.configure(...).
WebhookStartResolved_StartBeforeConfigure ==
    /\ svc.pc = "webhookStart"
    /\ pc[1] = "idle"
    /\ webhook' = [webhook EXCEPT !.active = TRUE]
    /\ siteUrl' = svc.config.siteUrl
    /\ configured' = TRUE
    /\ IF ~IsConfigured(configured)
       THEN SkipReconcile(1)
       ELSE BeginReconcile(1, siteUrl)
    /\ svc' = [svc EXCEPT !.pc = "portalStart",
                          !.trace = @ \o <<"billingPortalManager.start",
                                           "billingPortalManager.configure">>]
    /\ UNCHANGED <<settings, provider, api, linkage>>
    /\ UNCHANGED periphery

\* await this.webhookManager.start() resolves; billingPortalManager.configure(...)
\* and the synchronous part of billingPortalManager.start() follow.
WebhookStartResolved ==
    /\ svc.pc = "webhookStart"
    /\ pc[1] = "idle"
    /\ webhook' = [webhook EXCEPT !.active = TRUE]
    /\ siteUrl' = svc.config.siteUrl
    /\ configured' = TRUE
    /\ IF ~IsConfigured(TRUE)
       THEN SkipReconcile(1)
       ELSE BeginReconcile(1, svc.config.siteUrl)
    /\ svc' = [svc EXCEPT !.pc = "portalStart",
                          !.trace = @ \o <<"billingPortalManager.configure",
                                           "billingPortalManager.start">>]
    /\ UNCHANGED <<settings, provider, api, linkage>>
    /\ UNCHANGED periphery

\* The error of webhookManager.start() is caught and configure() carries on.
WebhookStartRejected_Swallow(err) ==
    /\ svc.pc = "webhookStart"
    /\ pc[1] = "idle"
    /\ siteUrl' = svc.config.siteUrl
    /\ configured' = TRUE
    /\ BeginReconcile(1, svc.config.siteUrl)
    /\ svc' = [svc EXCEPT !.pc = "portalStart", !.raised = Append(@, err),
                          !.trace = @ \o <<"billingPortalManager.configure",
                                           "billingPortalManager.start">>]
    /\ UNCHANGED <<settings, provider, api, webhook, linkage>>
    /\ UNCHANGED periphery

\* await this.webhookManager.start() rejects: configure() rejects.
WebhookStartRejected(err) ==
    /\ svc.pc = "webhookStart"
    /\ svc' = SvcFinish("threw", err)
    /\ UNCHANGED <<manager, settings, provider, runState, api, webhook, linkage>>
    /\ UNCHANGED periphery

\* await this.billingPortalManager.start() settles: configure() settles with it.
PortalStartSettled ==
    /\ svc.pc = "portalStart"
    /\ pc[1] = "done"
    /\ svc' = SvcFinish(outcome[1], thrown[1])
    /\ UNCHANGED <<manager, settings, provider, runState, api, webhook, linkage>>
    /\ UNCHANGED periphery

\* disconnect() begins by forgetting the cached billing portal configuration id.
StripeService_disconnect_ClearsCache ==
    /\ svc.pc = "idle"
    /\ settings' = [settings EXCEPT ![CONFIGURATION_ID_SETTING] = NoId]
    /\ svc' = [SvcIdle EXCEPT !.op = "disconnect", !.pc = "teardown", !.step = 1,
                              !.before = [linkage |-> linkage,
                                          active |-> webhook.active, api |-> api],
                              !.trace = <<DisconnectSteps[1]>>]
    /\ UNCHANGED <<manager, provider, runState, api, webhook, linkage>>
    /\ UNCHANGED periphery

\* disconnect() up to its first await: the first query is issued.
StripeService_disconnect ==
    /\ svc.pc = "idle"
    /\ svc' = [SvcIdle EXCEPT !.op = "disconnect", !.pc = "teardown", !.step = 1,
                              !.before = [linkage |-> linkage,
                                          active |-> webhook.active, api |-> api],
                              !.trace = <<DisconnectSteps[1]>>]
    /\ UNCHANGED <<manager, settings, provider, runState, api, webhook, linkage>>
    /\ UNCHANGED periphery

\* this.api.configure(null) is moved in front of await this.webhookManager.stop().
TeardownStepResolved_ClearsApiEarly ==
    /\ svc.pc = "teardown"
    /\ LET step == DisconnectSteps[svc.step]
           last == svc.step = Len(DisconnectSteps)
           early == svc.step + 1 = Len(DisconnectSteps)
       IN  /\ linkage' = linkage \ ClearedBy(step)
           /\ webhook' = IF step = "webhookManager.stop"
                         THEN [webhook EXCEPT !.active = FALSE]
                         ELSE webhook
           /\ api' = IF early \/ last THEN "null" ELSE api
           /\ svc' = IF last
                     THEN [svc EXCEPT !.pc = "done", !.outcome = "ok",
                                      !.trace = Append(@, "DomainEvents.dispatch"),
                                      !.dispatched = <<"StripeLiveDisabledEvent">>]
                     ELSE IF early
                     THEN [svc EXCEPT !.step = @ + 1,
                                      !.trace = @ \o <<"api.configure",
                                                       DisconnectSteps[svc.step + 1]>>]
                     ELSE [svc EXCEPT !.step = @ + 1,
                                      !.trace = Append(@, DisconnectSteps[svc.step + 1])]
    /\ UNCHANGED <<manager, settings, provider, runState>>
    /\ UNCHANGED periphery

\* The awaited step of disconnect() resolves: the next one is called, or, after
\* the last, this.api.configure(null) and the dispatch of StripeLiveDisabledEvent.
TeardownStepResolved ==
    /\ svc.pc = "teardown"
    /\ LET step == DisconnectSteps[svc.step]
           last == svc.step = Len(DisconnectSteps)
       IN  /\ linkage' = linkage \ ClearedBy(step)
           /\ webhook' = IF step = "webhookManager.stop"
                         THEN [webhook EXCEPT !.active = FALSE]
                         ELSE webhook
           /\ api' = IF last THEN "null" ELSE api
           /\ svc' = IF last
                     THEN [svc EXCEPT !.pc = "done", !.outcome = "ok",
                                      !.trace = @ \o <<"api.configure", "DomainEvents.dispatch">>,
                                      !.dispatched = <<"StripeLiveDisabledEvent">>]
                     ELSE [svc EXCEPT !.step = @ + 1,
                                      !.trace = Append(@, DisconnectSteps[svc.step + 1])]
    /\ UNCHANGED <<manager, settings, provider, runState>>
    /\ UNCHANGED periphery

\* The error of a step is caught and disconnect() carries on with the next one.
TeardownStepRejected_Continue(err) ==
    /\ svc.pc = "teardown"
    /\ LET last == svc.step = Len(DisconnectSteps)
       IN  /\ api' = IF last THEN "null" ELSE api
           /\ svc' = IF last
                     THEN [svc EXCEPT !.pc = "done", !.outcome = "ok", !.raised = Append(@, err),
                                      !.trace = @ \o <<"api.configure", "DomainEvents.dispatch">>,
                                      !.dispatched = <<"StripeLiveDisabledEvent">>]
                     ELSE [svc EXCEPT !.step = @ + 1, !.raised = Append(@, err),
                                      !.trace = Append(@, DisconnectSteps[svc.step + 1])]
    /\ UNCHANGED <<manager, settings, provider, runState, webhook, linkage>>
    /\ UNCHANGED periphery

\* The awaited step of disconnect() rejects: disconnect() rejects.
TeardownStepRejected(err) ==
    /\ svc.pc = "teardown"
    /\ svc' = SvcFinish("threw", err)
    /\ UNCHANGED <<manager, settings, provider, runState, api, webhook, linkage>>
    /\ UNCHANGED periphery

\* The caller has the result of the service call.
ServiceReturn ==
    /\ svc.pc = "done"
    /\ svc' = SvcIdle
    /\ IF pc[1] = "done"
       THEN /\ pc' = [pc EXCEPT ![1] = "idle"]
            /\ existingId' = [existingId EXCEPT ![1] = NoId]
            /\ configurationId' = [configurationId EXCEPT ![1] = NoId]
            /\ calls' = [calls EXCEPT ![1] = <<>>]
            /\ reads' = [reads EXCEPT ![1] = <<>>]
            /\ writes' = [writes EXCEPT ![1] = <<>>]
            /\ outcome' = [outcome EXCEPT ![1] = "none"]
            /\ thrown' = [thrown EXCEPT ![1] = NoErr]
       ELSE UNCHANGED runState
    /\ UNCHANGED <<manager, settings, provider, api, webhook, linkage>>
    /\ UNCHANGED periphery

\* While Stripe is connected, members, tiers and offers get linked to Stripe
\* objects.
Link(kind) ==
    /\ api = "configured"
    /\ svc.pc = "idle"
    /\ kind \notin linkage
    /\ linkage' = linkage \cup {kind}
    /\ UNCHANGED <<manager, settings, provider, runState, api, webhook, svc>>
    /\ UNCHANGED periphery

NextService ==
    \/ \E config \in Configs : StripeService_configure(config)
    \/ WebhookConfigureResolved
    \/ WebhookStartResolved
    \/ \E err \in OtherErrors : WebhookStartRejected(err)
    \/ PortalStartSettled
    \/ StripeService_connect
    \/ StripeService_disconnect
    \/ TeardownStepResolved
    \/ \E err \in ServiceErrors : TeardownStepRejected(err)
    \/ ServiceReturn
    \/ \E r \in Runs : UpdateResolved(r)
    \/ \E r \in Runs, err \in OtherErrors \cup {ResourceMissing} : UpdateRejected(r, err)
    \/ \E r \in Runs : CreateResolved(r)
    \/ \E r \in Runs, err \in OtherErrors : CreateRejected(r, err)
    \/ \E r \in Runs : EditResolved(r)
    \/ \E id \in Ids : DeleteRemote(id)
    \/ \E t \in Titles : SetTitle(t)
    \/ \E kind \in LinkageKinds : Link(kind)

SpecService == Init /\ [][NextService]_vars

IsPrefix(s, t) == Len(s) <= Len(t) /\ s = SubSeq(t, 1, Len(s))
TraceHas(name) == \E i \in DOMAIN svc.trace : svc.trace[i] = name
DuringDisconnect == svc.op = "disconnect"
ConfigureResolved == svc.op = "configure" /\ svc.pc = "done" /\ svc.outcome = "ok"

\* --------------------------------------------------------------------- C16
\* C16 as stated: a successful configure() has dispatched exactly one
\* StripeLiveEnabledEvent.
C16_Original_ConfigureDispatchesEnabled ==
    ConfigureResolved => svc.dispatched = <<"StripeLiveEnabledEvent">>

\* C16 amended: configure() configures the API facade, configures and starts
\* the webhook manager and configures and starts the billing portal manager,
\* and dispatches no event; StripeLiveEnabledEvent is dispatched by connect(),
\* once per call.
C16_EnabledEventOnlyFromConnect ==
    /\ svc.op = "configure" => svc.dispatched = <<>>
    /\ ConfigureResolved
       => /\ svc.trace = <<"api.configure", "webhookManager.configure",
                           "webhookManager.start", "billingPortalManager.configure",
                           "billingPortalManager.start">>
          /\ api = "configured" /\ webhook.active /\ configured
    /\ svc.op = "connect"
       => /\ svc.pc = "done" /\ svc.outcome = "ok"
          /\ svc.dispatched = <<"StripeLiveEnabledEvent">>
          /\ svc.trace = <<"DomainEvents.dispatch">>

C16_Witness ==
    /\ ConfigureResolved
    /\ svc.dispatched = <<>>
    /\ webhook.active
    /\ pc[1] = "done" /\ outcome[1] = "ok" /\ CachedId \in remote

\* --------------------------------------------------------------------- C17
\* C17: disconnect() clears the price, product, customer and coupon linkage,
\* then stops the webhook manager, then clears the API credentials, and only
\* then dispatches StripeLiveDisabledEvent.
C17_DisconnectOrder ==
    DuringDisconnect
    => /\ IsPrefix(svc.trace,
                   <<"Product.update", "StripePrice.del", "StripeProduct.del",
                     "MemberStripeCustomer.del", "Offer.update",
                     "webhookManager.stop", "api.configure", "DomainEvents.dispatch">>)
       /\ (svc.pc = "done" /\ svc.outcome = "ok") => Len(svc.trace) = 8
       /\ svc.dispatched \in {<<>>, <<"StripeLiveDisabledEvent">>}
       /\ svc.dispatched # <<>> => (api = "null" /\ ~webhook.active /\ linkage = {})
       /\ (api = "null" /\ svc.before.api = "configured")
          => (~webhook.active /\ linkage = {})

C17_Witness ==
    /\ DuringDisconnect /\ svc.pc = "done" /\ svc.outcome = "ok"
    /\ svc.before.linkage = LinkageKinds
    /\ svc.before.active /\ svc.before.api = "configured"
    /\ svc.dispatched = <<"StripeLiveDisabledEvent">>

\* --------------------------------------------------------------------- C18
\* C18 as stated: during disconnect() there is no state in which the webhook
\* registration is still active while local linkage has already been deleted.
C18_Original_StopBeforeWipe ==
    (DuringDisconnect /\ webhook.active) => linkage = svc.before.linkage

\* C18 amended: during disconnect() the local linkage is wiped before the
\* webhook registrar is stopped: webhookManager.stop() is called only after
\* the price ids, Stripe prices, Stripe products, member-customer rows and
\* coupon ids are cleared, so no state has the registration stopped by
\* disconnect() while local linkage remains.
C18_WipeBeforeStop ==
    DuringDisconnect
    => /\ TraceHas("webhookManager.stop") => linkage = {}
       /\ (svc.before.active /\ ~webhook.active) => linkage = {}

C18_Witness ==
    /\ DuringDisconnect /\ svc.pc = "teardown"
    /\ svc.before.linkage = LinkageKinds
    /\ TraceHas("webhookManager.stop")
    /\ webhook.active
    /\ linkage = {}

\* --------------------------------------------------------------------- C19
\* C19 as stated: after disconnect() returns or fails, no linkage remains and
\* no webhook registration is active.
C19_Original_TeardownDespiteFailure ==
    (DuringDisconnect /\ svc.pc = "done") => (linkage = {} /\ ~webhook.active)

\* C19 amended: after disconnect() returns, no price, product, customer or
\* coupon linkage remains, no webhook registration is active and the API
\* credentials are cleared; when a teardown step fails, disconnect() rejects
\* with the error of that step, the steps before it have taken effect and the
\* later ones have not run, so the remaining linkage and the webhook
\* registration are left as they were.
C19_TeardownStopsAtFailure ==
    (DuringDisconnect /\ svc.pc = "done")
    => IF svc.outcome = "ok"
       THEN /\ linkage = {} /\ ~webhook.active /\ api = "null"
            /\ svc.raised = <<>>
       ELSE /\ svc.raised = <<svc.thrown>>
            /\ linkage = svc.before.linkage \
                           UNION {ClearedBy(svc.trace[j]) : j \in 1 .. Len(svc.trace) - 1}
            /\ webhook.active = svc.before.active
            /\ api = svc.before.api
            /\ svc.dispatched = <<>>

C19_Witness ==
    /\ DuringDisconnect /\ svc.pc = "done" /\ svc.outcome = "threw"
    /\ svc.before.linkage = LinkageKinds /\ svc.before.active
    /\ svc.trace = <<"Product.update", "StripePrice.del", "StripeProduct.del">>
    /\ linkage = {"stripe_products", "member_stripe_customers", "offer_coupon_ids"}
    /\ webhook.active

\* --------------------------------------------------------------------- C20
\* C20: when webhookManager.start() or billingPortalManager.start() fails
\* during configure(), configure() fails with that error.
C20_ConfigurePropagatesFailure ==
    (svc.op = "configure" /\ svc.pc = "done")
    => /\ svc.raised # <<>> => (svc.outcome = "threw" /\ svc.raised = <<svc.thrown>>)
       /\ (pc[1] = "done" /\ outcome[1] = "threw")
          => (svc.outcome = "threw" /\ svc.thrown = thrown[1])
       /\ svc.outcome = "threw" => svc.thrown \in OtherErrors

C20_Witness ==
    /\ svc.op = "configure" /\ svc.pc = "done" /\ svc.outcome = "threw"
    /\ svc.trace[Len(svc.trace)] = "webhookManager.start"
    /\ svc.thrown = RateLimit
    /\ pc[1] = "idle"

\* --------------------------------------------------------------------- C28
\* C28: every update call the manager issues carries the business_profile
\* (the headline of the current title) and nothing else; every create call
\* carries the business_profile, the three features enabled and a
\* default_return_url equal to the configured siteUrl.
C28_UpdatePartialCreateFull ==
    [][\A r \in Runs :
        Len(calls'[r]) > Len(calls[r])
        => LET c == calls'[r][Len(calls'[r])]
           IN  /\ c.options.business_profile
                    = [headline |-> "Manage your " \o settings[TITLE_SETTING] \o " subscription"]
               /\ IF c.op = "update"
                  THEN DOMAIN c.options = {"business_profile"}
                  ELSE /\ DOMAIN c.options
                            = {"business_profile", "features", "default_return_url"}
                       /\ DOMAIN c.options.features
                            = {"invoice_history", "payment_method_update",
                               "subscription_cancel"}
                       /\ \A f \in DOMAIN c.options.features :
                            c.options.features[f] = [enabled |-> TRUE]
                       /\ c.options.default_return_url = siteUrl
                       /\ siteUrl \in Urls]_vars

C28_Witness ==
    \E r \in Runs :
        /\ Len(calls[r]) = 2
        /\ calls[r][1].op = "update"
        /\ DOMAIN calls[r][1].options = {"business_profile"}
        /\ calls[r][2].op = "create"
        /\ calls[r][2].options.default_return_url = siteUrl

\* --------------------------------------------------------------------- C29
\* C29: a start() that rejects, because the update failed with an error other
\* than resource_missing or because a create failed (the first create or the
\* one that follows a resource_missing update), made no settings write and
\* leaves the cached configuration id as it read it.
C29_FailedStartKeepsCache ==
    \A r \in Runs :
        (pc[r] = "done" /\ outcome[r] = "threw")
        => /\ writes[r] = <<>>
           /\ CachedId = existingId[r]
           /\ LastCall(r).result.status = "error"

C29_Witness ==
    \E r \in Runs :
        /\ pc[r] = "done" /\ outcome[r] = "threw"
        /\ UpdateMissing(r)
        /\ Len(calls[r]) = 2
        /\ calls[r][2].op = "create"
        /\ calls[r][2].result.status = "error"
        /\ existingId[r] # NoId
        /\ CachedId = existingId[r]

StepsCalled == {i \in DOMAIN DisconnectSteps : TraceHas(DisconnectSteps[i])}
DisconnectFailed == DuringDisconnect /\ svc.raised # <<>>

\* C31: when a step of disconnect() fails, none of the later steps run: the
\* failed step is the last call made, the linkage of the later steps and the
\* webhook registration stay as they were, the API credentials are not
\* cleared and nothing is dispatched. StripeLiveDisabledEvent is dispatched
\* only when every linkage-clearing step and webhookManager.stop() resolved,
\* and the API credentials are cleared only after webhookManager.stop()
\* resolved.
C31_FailedStepEndsDisconnect ==
    DuringDisconnect
    => /\ svc.raised # <<>>
          => /\ svc.pc = "done" /\ svc.outcome = "threw"
             /\ svc.raised = <<svc.thrown>>
             /\ svc.trace = SubSeq(DisconnectSteps, 1, Len(svc.trace))
             /\ \A i \in DOMAIN DisconnectSteps :
                    i >= Len(svc.trace)
                    => ClearedBy(DisconnectSteps[i]) \cap svc.before.linkage \subseteq linkage
             /\ webhook.active = svc.before.active
             /\ api = svc.before.api
             /\ svc.dispatched = <<>>
       /\ svc.dispatched # <<>>
          => /\ svc.raised = <<>>
             /\ StepsCalled = DOMAIN DisconnectSteps
             /\ linkage = {} /\ ~webhook.active
       /\ (TraceHas("api.configure") \/ api # svc.before.api)
          => /\ svc.raised = <<>>
             /\ ~webhook.active
             /\ SubSeq(svc.trace, 1, Len(DisconnectSteps) + 1)
                  = Append(DisconnectSteps, "api.configure")

C31_Witness ==
    /\ DisconnectFailed /\ svc.pc = "done"
    /\ svc.before.linkage = LinkageKinds
    /\ svc.before.active /\ svc.before.api = "configured"
    /\ svc.trace = DisconnectSteps
    /\ svc.thrown = ConnectionError
    /\ linkage = {} /\ webhook.active /\ api = "configured"
    /\ svc.dispatched = <<>>

\* --------------------------------------------------------------------- C32
\* C32: disconnect() leaves stripe_billing_portal_configuration_id in the
\* settings store as it was, from its call to its return; and a start() that
\* reads a cached id begins with an update of that id, not with a create. So
\* a configure() after a disconnect() updates the configuration of the
\* previous connection, and creates one only when that update fails with
\* resource_missing.
C32_DisconnectKeepsCachedId ==
    [][/\ (DuringDisconnect \/ svc'.op = "disconnect") => CachedId' = CachedId
       /\ (pc[1] = "idle" /\ pc'[1] # "idle" /\ CachedId # NoId)
          => /\ existingId'[1] = CachedId
             /\ Len(calls'[1]) = 1
             /\ calls'[1][1].op = "update"
             /\ calls'[1][1].id = CachedId
       /\ (Len(calls[1]) = 1 /\ Len(calls'[1]) = 2)
          => /\ calls'[1][1].op = "update"
             /\ calls'[1][1].result = Rejected(ResourceMissing)
             /\ calls'[1][2].op = "create"]_vars

C32_Witness ==
    /\ DuringDisconnect /\ svc.pc = "done" /\ svc.outcome = "ok"
    /\ api = "null" /\ ~webhook.active
    /\ CachedId # NoId
    /\ CachedId \notin remote

\* ========================================================= member commenting
\* A member's commenting value is read from storage (parse), replaced
\* (enable, disable) and written back (format), while the clock advances.
DisableReasons == {Str(""), Str("spam")}
DisableUntils == {Null, InvalidDate} \cup {DateOf(t) : t \in Times}

InitCommenting ==
    /\ StripeIdle /\ CommentingIdle /\ ContainersIdle /\ ButtonIdle /\ InboundIdle
    /\ TwinIdle /\ ValidatorIdle

\* Storage holds some raw value for the member.
Store(raw) ==
    /\ stored # raw
    /\ stored' = raw
    /\ formatted' = NoCommenting
    /\ codecOp' = [op |-> "store", threw |-> FALSE]
    /\ UNCHANGED <<now, commenting>>
    /\ UNCHANGED <<stripe, containerState, buttonState, inboundState,
                 twinState, validatorState>>

\* MemberCommentingCodec.parse(stored)
Parse ==
    /\ LET result == MemberCommentingCodec_parse(stored, now)
       IN  /\ commenting' = IF result.threw THEN commenting ELSE result.value
           /\ codecOp' = [op |-> "parse", threw |-> result.threw]
    /\ UNCHANGED <<now, stored, formatted>>
    /\ UNCHANGED <<stripe, containerState, buttonState, inboundState,
                 twinState, validatorState>>

\* MemberCommentingCodec.format(commenting), written to storage
Format ==
    /\ commenting # NoCommenting
    /\ LET result == MemberCommentingCodec_format(commenting)
       IN  /\ stored' = IF result.threw THEN stored ELSE result.value
           /\ formatted' = IF result.threw THEN formatted ELSE commenting
           /\ codecOp' = [op |-> "format", threw |-> result.threw]
    /\ UNCHANGED <<now, commenting>>
    /\ UNCHANGED <<stripe, containerState, buttonState, inboundState,
                 twinState, validatorState>>

\* MemberCommenting.enabled(), commenting.enable()
Enable ==
    /\ LET result == MemberCommenting_enabled(now)
       IN  /\ commenting' = IF result.threw THEN commenting ELSE result.value
           /\ codecOp' = [op |-> "enable", threw |-> result.threw]
    /\ UNCHANGED <<now, stored, formatted>>
    /\ UNCHANGED <<stripe, containerState, buttonState, inboundState,
                 twinState, validatorState>>

\* MemberCommenting.disabled(reason, until), commenting.disable(reason, until)
Disable(reason, until) ==
    /\ LET result == MemberCommenting_disabled(reason, until, now)
       IN  /\ commenting' = IF result.threw THEN commenting ELSE result.value
           /\ codecOp' = [op |-> "disable", threw |-> result.threw]
    /\ UNCHANGED <<now, stored, formatted>>
    /\ UNCHANGED <<stripe, containerState, buttonState, inboundState,
                 twinState, validatorState>>

\* Time passes.
Tick ==
    /\ now < MaxTime
    /\ now' = now + 1
    /\ UNCHANGED <<stored, commenting, formatted, codecOp>>
    /\ UNCHANGED <<stripe, containerState, buttonState, inboundState,
                 twinState, validatorState>>

NextCommenting ==
    \/ \E raw \in RawInputs : Store(raw)
    \/ Parse
    \/ Format
    \/ Enable
    \/ \E reason \in DisableReasons, until \in DisableUntils : Disable(reason, until)
    \/ Tick

SpecCommenting == InitCommenting /\ [][NextCommenting]_vars

\* the enabled state: disabled=false, reason null, until null
IsEnabledState(c) ==
    /\ c # NoCommenting
    /\ c.disabled = FALSE
    /\ c.disabledReason = Null
    /\ c.disabledUntil = Null

\* --------------------------------------------------------------------- C24
\* C24 as stated: parse never throws, and for a raw value that is null, is
\* not valid JSON, has disabled=true with a missing or empty reason, or has a
\* disabledUntil that is not a valid date, it returns the enabled state.
C24_ParseFailsOpen ==
    codecOp.op = "parse"
    => /\ ~codecOp.threw
       /\ LET data == IF JSON_parse(stored).threw THEN Undefined ELSE JSON_parse(stored).value
              until == Get(data, "disabledUntil")
          IN  (\/ stored = Null
               \/ JSON_parse(stored).threw
               \/ /\ Get(data, "disabled") = Bool(TRUE)
                  /\ Get(data, "disabledReason") \in {Undefined, Null, Str("")}
               \/ /\ until.type = "string"
                  /\ \A t \in Times : until.value \notin {IsoText(t), DateText(t)})
              => IsEnabledState(commenting)

\* --------------------------------------------------------------------- C25
\* C25: a MemberCommenting value that was formatted into storage (enabled, or
\* disabled with a non-empty reason and a null or valid until date) and is
\* parsed back has the same disabled, disabledReason and disabledUntil.
C25_CodecRoundTrip ==
    (codecOp.op = "parse" /\ formatted # NoCommenting)
    => /\ ~codecOp.threw
       /\ commenting.disabled = formatted.disabled
       /\ commenting.disabledReason = formatted.disabledReason
       /\ commenting.disabledUntil = formatted.disabledUntil

C25_Witness ==
    /\ codecOp.op = "parse"
    /\ formatted # NoCommenting
    /\ formatted.disabled
    /\ formatted.disabledReason = Str("spam")
    /\ formatted.disabledUntil = DateOf(1)
    /\ stored = RawText(Obj([disabled |-> Bool(TRUE), disabledReason |-> Str("spam"),
                             disabledUntil |-> Str("2026-01-02T00:00:00.000Z")]))
    /\ commenting.disabledUntil = DateOf(1)
    /\ commenting.canComment # formatted.canComment

\* --------------------------------------------------------------------- C34
\* a call that made a MemberCommenting value, or threw
Constructs(op) == codecOp' # codecOp /\ codecOp'.op = op

\* C34: every MemberCommenting value that exists has a non-empty
\* disabledReason when disabled is true; disabled() and disable() with an
\* empty reason throw a ValidationError and give no value; the value that
\* enable() or disable() gives is made of the arguments of that call alone,
\* whatever value it was called on, and enable() gives disabled=false with
\* reason null and until null.
C34_ReasonRequiredLastCallWins ==
    [][/\ (commenting' # NoCommenting /\ commenting'.disabled)
          => (commenting'.disabledReason.type = "string"
              /\ commenting'.disabledReason.value # "")
       /\ \A reason \in DisableReasons, until \in DisableUntils :
              Disable(reason, until)
              => IF reason = Str("")
                 THEN /\ MemberCommenting_disabled(reason, until, now) = Threw(ValidationError)
                      /\ codecOp'.threw
                      /\ commenting' = commenting
                 ELSE /\ ~codecOp'.threw
                      /\ commenting'.disabled
                      /\ commenting'.disabledReason = reason
                      /\ commenting'.disabledUntil = until
       /\ Enable
          => /\ ~codecOp'.threw
             /\ commenting'.disabled = FALSE
             /\ commenting'.disabledReason = Null
             /\ commenting'.disabledUntil = Null]_vars

C34_Witness ==
    /\ codecOp = [op |-> "disable", threw |-> TRUE]
    /\ commenting # NoCommenting
    /\ commenting.disabled
    /\ commenting.disabledReason = Str("spam")
    /\ commenting.disabledUntil = DateOf(1)

\* --------------------------------------------------------------------- C35
\* C35: canComment of a MemberCommenting value is true when disabled is
\* false; false when disabled is true and there is no until date; and when
\* disabled is true with an until date, true exactly when that date is at or
\* before the time the value was constructed.
C35_CanCommentAtConstruction ==
    [][(\E op \in {"parse", "enable", "disable"} : Constructs(op) /\ ~codecOp'.threw)
       => LET c == commenting'
          IN  c.canComment =
                  IF ~c.disabled THEN TRUE
                  ELSE IF c.disabledUntil = Null THEN FALSE
                  ELSE c.disabledUntil.valid /\ c.disabledUntil.time <= now]_vars

C35_Witness ==
    /\ codecOp = [op |-> "disable", threw |-> FALSE]
    /\ now = 1
    /\ commenting.disabled
    /\ commenting.disabledUntil = DateOf(1)
    /\ commenting.canComment

\* ========================================================== e2e containers
\* DevGhostManager.setup() gets or creates the Ghost container and then the
\* gateway container.  Docker answers each call according to the state the
\* container is in when the answer is given; containers left by an earlier
\* process may exist, and containers exit or are removed by others meanwhile.
ContainerStates == {"absent", "stopped", "running"}

NotFound == [statusCode |-> "404", reason |-> "no such container"]
AlreadyStarted == [statusCode |-> "304", reason |-> "container already started"]
Conflict == [statusCode |-> "409", reason |-> "name already in use"]
ServerError == [statusCode |-> "500", reason |-> "server error"]

\* a call to Docker, with the state the container was in when it was made
DockerCall(call, name) == [call |-> call, name |-> name, state |-> containers[name]]

InitContainers ==
    /\ StripeIdle /\ CommentingIdle /\ ButtonIdle /\ InboundIdle
    /\ TwinIdle /\ ValidatorIdle
    /\ containers \in [ContainerNames -> ContainerStates]
    /\ ghostContainer = NoContainer
    /\ gatewayContainer = NoContainer
    /\ dev = DevIdle

\* setup() up to its first await: getOrCreateContainer(ghostName, ...) calls
\* existing.inspect().
DevGhostManager_setup ==
    /\ dev.pc = "idle"
    /\ dev' = [DevIdle EXCEPT !.op = "setup", !.pc = "inspect", !.name = GhostName,
                              !.trace = <<DockerCall("inspect", GhostName)>>]
    /\ UNCHANGED <<containers, ghostContainer, gatewayContainer>>
    /\ UNCHANGED <<stripe, commentingState, buttonState, inboundState,
                 twinState, validatorState>>

\* getOrCreateContainer returned the container: setup() keeps it and goes on
\* with the gateway, or is done.
Acquired(name, trace) ==
    IF name = GhostName
    THEN /\ ghostContainer' = name
         /\ dev' = [dev EXCEPT !.pc = "inspect", !.name = GatewayName,
                               !.trace = Append(trace, DockerCall("inspect", GatewayName))]
         /\ UNCHANGED gatewayContainer
    ELSE /\ gatewayContainer' = name
         /\ dev' = [dev EXCEPT !.pc = "done", !.outcome = "ok", !.trace = trace]
         /\ UNCHANGED ghostContainer

\* The catch block of getOrCreateContainer: create() is called.
CatchAndCreate ==
    /\ dev' = [dev EXCEPT !.pc = "create",
                          !.trace = Append(@, DockerCall("createContainer", dev.name))]
    /\ UNCHANGED <<containers, ghostContainer, gatewayContainer>>

\* getOrCreateContainer rejects, and setup() with it.
SetupRejected ==
    /\ dev' = [dev EXCEPT !.pc = "done", !.outcome = "threw"]
    /\ UNCHANGED <<containers, ghostContainer, gatewayContainer>>

\* await existing.inspect() resolves.
InspectResolved ==
    /\ dev.pc = "inspect"
    /\ containers[dev.name] # "absent"
    /\ IF containers[dev.name] = "running"
       THEN Acquired(dev.name, dev.trace)
       ELSE /\ dev' = [dev EXCEPT !.pc = "startExisting",
                                  !.trace = Append(@, DockerCall("start", dev.name))]
            /\ UNCHANGED <<ghostContainer, gatewayContainer>>
    /\ UNCHANGED containers
    /\ UNCHANGED <<stripe, commentingState, buttonState, inboundState,
                 twinState, validatorState>>

\* await existing.inspect() rejects.
InspectRejected(err) ==
    /\ dev.pc = "inspect"
    /\ err \in {NotFound, ServerError}
    /\ err = NotFound <=> containers[dev.name] = "absent"
    /\ CatchAndCreate
    /\ UNCHANGED <<stripe, commentingState, buttonState, inboundState,
                 twinState, validatorState>>

\* await existing.start() resolves.
StartExistingResolved ==
    /\ dev.pc = "startExisting"
    /\ containers[dev.name] = "stopped"
    /\ containers' = [containers EXCEPT ![dev.name] = "running"]
    /\ Acquired(dev.name, dev.trace)
    /\ UNCHANGED <<stripe, commentingState, buttonState, inboundState,
                 twinState, validatorState>>

\* await existing.start() rejects.
StartExistingRejected(err) ==
    /\ dev.pc = "startExisting"
    /\ err \in {NotFound, AlreadyStarted, ServerError}
    /\ err = NotFound <=> containers[dev.name] = "absent"
    /\ err = AlreadyStarted <=> containers[dev.name] = "running"
    /\ CatchAndCreate
    /\ UNCHANGED <<stripe, commentingState, buttonState, inboundState,
                 twinState, validatorState>>

\* await create() resolves; container.start() is called.
ContainerCreateResolved ==
    /\ dev.pc = "create"
    /\ containers[dev.name] = "absent"
    /\ containers' = [containers EXCEPT ![dev.name] = "stopped"]
    /\ dev' = [dev EXCEPT !.pc = "startNew",
                          !.trace = Append(@, [call |-> "start", name |-> dev.name,
                                               state |-> "stopped"])]
    /\ UNCHANGED <<ghostContainer, gatewayContainer>>
    /\ UNCHANGED <<stripe, commentingState, buttonState, inboundState,
                 twinState, validatorState>>

\* await create() rejects.
ContainerCreateRejected(err) ==
    /\ dev.pc = "create"
    /\ err \in {Conflict, ServerError}
    /\ err = Conflict <=> containers[dev.name] # "absent"
    /\ SetupRejected
    /\ UNCHANGED <<stripe, commentingState, buttonState, inboundState,
                 twinState, validatorState>>

\* await container.start() resolves.
StartNewResolved ==
    /\ dev.pc = "startNew"
    /\ containers[dev.name] = "stopped"
    /\ containers' = [containers EXCEPT ![dev.name] = "running"]
    /\ Acquired(dev.name, dev.trace)
    /\ UNCHANGED <<stripe, commentingState, buttonState, inboundState,
                 twinState, validatorState>>

\* await container.start() rejects.
StartNewRejected(err) ==
    /\ dev.pc = "startNew"
    /\ err \in {NotFound, AlreadyStarted, ServerError}
    /\ err = NotFound <=> containers[dev.name] = "absent"
    /\ err = AlreadyStarted <=> containers[dev.name] = "running"
    /\ SetupRejected
    /\ UNCHANGED <<stripe, commentingState, buttonState, inboundState,
                 twinState, validatorState>>

\* teardown() up to its first await: removeContainer is called for the
\* gateway container, or for the Ghost container when no gateway is held; with
\* neither held teardown() returns.
DevGhostManager_teardown ==
    /\ dev.pc = "idle"
    /\ dev' = IF gatewayContainer # NoContainer
              THEN [DevIdle EXCEPT !.op = "teardown", !.pc = "remove",
                                   !.name = gatewayContainer,
                                   !.trace = <<DockerCall("remove", gatewayContainer)>>]
              ELSE IF ghostContainer # NoContainer
              THEN [DevIdle EXCEPT !.op = "teardown", !.pc = "remove",
                                   !.name = ghostContainer,
                                   !.trace = <<DockerCall("remove", ghostContainer)>>]
              ELSE [DevIdle EXCEPT !.op = "teardown", !.pc = "done", !.outcome = "ok"]
    /\ UNCHANGED <<containers, ghostContainer, gatewayContainer>>
    /\ UNCHANGED <<stripe, commentingState, buttonState, inboundState,
                   twinState, validatorState>>

\* removeContainer returned: the reference is set to null and teardown() goes
\* on with the Ghost container, or is done.
Released ==
    IF dev.name = gatewayContainer
    THEN /\ gatewayContainer' = NoContainer
         /\ dev' = IF ghostContainer # NoContainer
                   THEN [dev EXCEPT !.name = ghostContainer,
                                    !.trace = Append(@, DockerCall("remove", ghostContainer))]
                   ELSE [dev EXCEPT !.pc = "done", !.outcome = "ok"]
         /\ UNCHANGED ghostContainer
    ELSE /\ ghostContainer' = NoContainer
         /\ dev' = [dev EXCEPT !.pc = "done", !.outcome = "ok"]
         /\ UNCHANGED gatewayContainer

\* await container.remove({force: true}) resolves.
RemoveResolved ==
    /\ dev.pc = "remove"
    /\ containers[dev.name] # "absent"
    /\ containers' = [containers EXCEPT ![dev.name] = "absent"]
    /\ Released
    /\ UNCHANGED <<stripe, commentingState, buttonState, inboundState,
                   twinState, validatorState>>

\* The error of container.remove() is not caught: teardown() rejects.
RemoveRejected_Propagates(err) ==
    /\ dev.pc = "remove"
    /\ err \in {NotFound, ServerError}
    /\ err = NotFound <=> containers[dev.name] = "absent"
    /\ dev' = [dev EXCEPT !.pc = "done", !.outcome = "threw"]
    /\ UNCHANGED <<containers, ghostContainer, gatewayContainer>>
    /\ UNCHANGED <<stripe, commentingState, buttonState, inboundState,
                   twinState, validatorState>>

\* await container.remove({force: true}) rejects: removeContainer catches the
\* error and returns.
RemoveRejected(err) ==
    /\ dev.pc = "remove"
    /\ err \in {NotFound, ServerError}
    /\ err = NotFound <=> containers[dev.name] = "absent"
    /\ Released
    /\ UNCHANGED containers
    /\ UNCHANGED <<stripe, commentingState, buttonState, inboundState,
                   twinState, validatorState>>

\* The caller has the result of setup() or teardown().
DevReturn ==
    /\ dev.pc = "done"
    /\ dev' = DevIdle
    /\ UNCHANGED <<containers, ghostContainer, gatewayContainer>>
    /\ UNCHANGED <<stripe, commentingState, buttonState, inboundState,
                 twinState, validatorState>>

\* A running container exits.
ContainerExits(name) ==
    /\ containers[name] = "running"
    /\ containers' = [containers EXCEPT ![name] = "stopped"]
    /\ UNCHANGED <<ghostContainer, gatewayContainer, dev>>
    /\ UNCHANGED <<stripe, commentingState, buttonState, inboundState,
                 twinState, validatorState>>

\* A container is removed by someone else (docker rm, a cleanup of the project).
ContainerRemoved(name) ==
    /\ containers[name] # "absent"
    /\ containers' = [containers EXCEPT ![name] = "absent"]
    /\ UNCHANGED <<ghostContainer, gatewayContainer, dev>>
    /\ UNCHANGED <<stripe, commentingState, buttonState, inboundState,
                 twinState, validatorState>>

NextContainers ==
    \/ DevGhostManager_setup
    \/ InspectResolved
    \/ \E err \in {NotFound, ServerError} : InspectRejected(err)
    \/ StartExistingResolved
    \/ \E err \in {NotFound, AlreadyStarted, ServerError} : StartExistingRejected(err)
    \/ ContainerCreateResolved
    \/ \E err \in {Conflict, ServerError} : ContainerCreateRejected(err)
    \/ StartNewResolved
    \/ \E err \in {NotFound, AlreadyStarted, ServerError} : StartNewRejected(err)
    \/ DevGhostManager_teardown
    \/ RemoveResolved
    \/ \E err \in {NotFound, ServerError} : RemoveRejected(err)
    \/ DevReturn
    \/ \E name \in ContainerNames : ContainerExits(name)
    \/ \E name \in ContainerNames : ContainerRemoved(name)

SpecContainers == InitContainers /\ [][NextContainers]_vars

\* --------------------------------------------------------------------- C26
\* C26: getOrCreateContainer calls create only for a name under which no
\* container exists; a container found running is returned with no start and
\* no create, a container found stopped is started and returned.
C26_CreateOnlyWhenAbsent ==
    \A i \in DOMAIN dev.trace :
        /\ dev.trace[i].call = "createContainer" => dev.trace[i].state = "absent"
        /\ (dev.trace[i].call = "inspect" /\ i < Len(dev.trace))
           => LET next == dev.trace[i + 1]
              IN  CASE dev.trace[i].state = "running" -> next.call = "inspect"
                    [] dev.trace[i].state = "stopped" ->
                         next.call \in {"inspect", "start"}
                    [] OTHER -> next.call = "createContainer"

\* --------------------------------------------------------------------- C37
\* the containers a call asked Docker about, in order
NamesOf(trace) == [i \in DOMAIN trace |-> trace[i].name]

\* C37: teardown() asks Docker to remove the gateway container first and the
\* Ghost container after it, each if its reference is held; it never rejects,
\* and when it has returned both references are null, also when a removal
\* failed.
C37_TeardownGatewayFirst ==
    [][/\ (dev.pc = "idle" /\ dev'.op = "teardown")
          => NamesOf(dev'.trace) =
                 IF gatewayContainer # NoContainer THEN <<GatewayName>>
                 ELSE IF ghostContainer # NoContainer THEN <<GhostName>>
                 ELSE <<>>
       /\ (dev.op = "teardown" /\ dev.pc = "remove" /\ dev' # dev /\ dev'.op = "teardown")
          => NamesOf(dev'.trace) =
                 IF dev.name = GatewayName /\ ghostContainer # NoContainer
                 THEN <<GatewayName, GhostName>>
                 ELSE NamesOf(dev.trace)
       /\ dev'.op = "teardown"
          => /\ dev'.outcome # "threw"
             /\ \A i \in DOMAIN dev'.trace : dev'.trace[i].call = "remove"
             /\ (\E i \in DOMAIN dev'.trace : dev'.trace[i].name = GhostName)
                => gatewayContainer' = NoContainer
             /\ dev'.pc = "done"
                => /\ dev'.outcome = "ok"
                   /\ ghostContainer' = NoContainer
                   /\ gatewayContainer' = NoContainer]_vars

C37_Witness ==
    /\ dev.op = "teardown" /\ dev.pc = "done" /\ dev.outcome = "ok"
    /\ dev.trace = <<[call |-> "remove", name |-> GatewayName, state |-> "running"],
                     [call |-> "remove", name |-> GhostName, state |-> "running"]>>
    /\ containers[GatewayName] = "running"
    /\ containers[GhostName] = "absent"
    /\ ghostContainer = NoContainer
    /\ gatewayContainer = NoContainer

\* ===================================================== comment context menu
\* MoreButton is rendered for a comment under the app context (the member
\* and the admin who are signed in, whether commenting is disabled for the
\* member), and again whenever the context or the comment changes.
Uuids == {"member-1", "member-2"}
CommentStatuses == {"published", "hidden", "deleted"}

\* commenting is disabled for a member: there is no such flag without one
AppContexts ==
    {ctx \in [member : Uuids \cup {NoMember}, admin : BOOLEAN,
              isCommentingDisabled : BOOLEAN] :
        ctx.isCommentingDisabled => ctx.member # NoMember}

Comments == [status : CommentStatuses, member : Uuids \cup {NoMember}]

\* const isAdmin = !!admin
IsAdmin(ctx) == ctx.admin

\* const isAuthor = member && comment.member?.uuid === member?.uuid
IsAuthor(ctx, c) == ctx.member # NoMember /\ c.member = ctx.member

\* An admin always gets the menu.
Show_AdminAlways(ctx, c) ==
    \/ (ctx.member # NoMember /\ c.status = "published")
         /\ ~(ctx.isCommentingDisabled /\ IsAuthor(ctx, c))
    \/ IsAdmin(ctx)

\* const show = ((!!member && comment.status === 'published') || isAdmin)
\*                  && !(isCommentingDisabled && isAuthor)
Show(ctx, c) ==
    /\ (ctx.member # NoMember /\ c.status = "published") \/ IsAdmin(ctx)
    /\ ~(ctx.isCommentingDisabled /\ IsAuthor(ctx, c))

InitButton ==
    /\ StripeIdle /\ CommentingIdle /\ ContainersIdle /\ InboundIdle /\ ButtonIdle
    /\ TwinIdle /\ ValidatorIdle

\* The component renders: null, or the button.
MoreButton ==
    /\ rendered' = IF Show(appContext, comment) THEN "more-button" ELSE "null"
    /\ UNCHANGED <<appContext, comment>>
    /\ UNCHANGED <<stripe, commentingState, containerState, inboundState,
                 twinState, validatorState>>

\* Someone signs in or out, or commenting is disabled or enabled for the member.
SetAppContext(ctx) ==
    /\ ctx # appContext
    /\ appContext' = ctx
    /\ rendered' = "unrendered"
    /\ UNCHANGED comment
    /\ UNCHANGED <<stripe, commentingState, containerState, inboundState,
                 twinState, validatorState>>

\* The button is rendered for another comment, or the comment changes.
SetComment(c) ==
    /\ c # comment
    /\ comment' = c
    /\ rendered' = "unrendered"
    /\ UNCHANGED appContext
    /\ UNCHANGED <<stripe, commentingState, containerState, inboundState,
                 twinState, validatorState>>

NextButton ==
    \/ MoreButton
    \/ \E ctx \in AppContexts : SetAppContext(ctx)
    \/ \E c \in Comments : SetComment(c)

SpecButton == InitButton /\ [][NextButton]_vars

Rendered == rendered # "unrendered"
ViewsOwnCommentDisabled ==
    /\ appContext.member # NoMember
    /\ appContext.isCommentingDisabled
    /\ comment.member = appContext.member

MaxDeliveries == 3     \* requests the endpoint receives in one run of the model

Tolerance == 300       \* seconds a signed timestamp may lie in the past

WebhookSecret == "whsec_site"
OtherSecret == "whsec_other"

NoPayload == [subscription |-> "none", status |-> "none", email |-> "none"]

\* The events the provider has issued.
EventCatalog ==
    {[id |-> "evt_1", type |-> "customer.subscription.created", createdAt |-> 1,
      payload |-> [NoPayload EXCEPT !.subscription = "sub_1", !.status = "active"]],
     [id |-> "evt_2", type |-> "customer.subscription.updated", createdAt |-> 2,
      payload |-> [NoPayload EXCEPT !.subscription = "sub_1", !.status = "past_due"]],
     [id |-> "evt_3", type |-> "customer.subscription.deleted", createdAt |-> 3,
      payload |-> [NoPayload EXCEPT !.subscription = "sub_1", !.status = "canceled"]],
     [id |-> "evt_4", type |-> "checkout.session.completed", createdAt |-> 1,
      payload |-> [NoPayload EXCEPT !.email = "a@example.com"]],
     [id |-> "evt_5", type |-> "charge.refunded", createdAt |-> 2,
      payload |-> NoPayload]}

EventOf(id) == CHOOSE e \in EventCatalog : e.id = id

\* The signature of the scheme: a MAC, under a key, of the timestamp and the
\* raw payload.
Hmac(key, age, payload) == [key |-> key, age |-> age, payload |-> payload]

\* The payload after someone altered it in transit.
Altered(payload) ==
    [payload EXCEPT !.status = IF @ = "none" THEN @ ELSE "trialing",
                    !.email = "eve@example.com"]

\* A request for event e: as the provider sent it (now, or Tolerance seconds
\* ago), replayed after the tolerance window, with the payload altered, signed
\* with another key, or replayed with the timestamp of the header refreshed.
Request(e, variant) ==
    [id |-> e.id, type |-> e.type, createdAt |-> e.createdAt, variant |-> variant,
     payload |-> IF variant = "tampered" THEN Altered(e.payload) ELSE e.payload,
     header |->
        CASE variant = "genuine" -> [age |-> 0, v1 |-> Hmac(WebhookSecret, 0, e.payload)]
          [] variant = "delayed" ->
               [age |-> Tolerance, v1 |-> Hmac(WebhookSecret, Tolerance, e.payload)]
          [] variant = "expired" ->
               [age |-> Tolerance + 1, v1 |-> Hmac(WebhookSecret, Tolerance + 1, e.payload)]
          [] variant = "tampered" -> [age |-> 0, v1 |-> Hmac(WebhookSecret, 0, e.payload)]
          [] variant = "forged" -> [age |-> 0, v1 |-> Hmac(OtherSecret, 0, e.payload)]
          [] OTHER -> [age |-> 0, v1 |-> Hmac(WebhookSecret, Tolerance + 1, e.payload)]]

Variants == {"genuine", "delayed", "expired", "tampered", "forged", "refreshed"}
Requests == {Request(e, variant) : e \in EventCatalog, variant \in Variants}

\* The age of the timestamp is not checked.
VerifySignature_NoTolerance(req) ==
    req.header.v1 = Hmac(WebhookSecret, req.header.age, req.payload)

\* WebhookManager: the signature header was made with the configured secret
\* over this timestamp and this payload, and the timestamp is within tolerance.
VerifySignature(req) ==
    /\ req.header.v1 = Hmac(WebhookSecret, req.header.age, req.payload)
    /\ req.header.age <= Tolerance

\* WebhookController: the translator for an event type, "none" for a type
\* that is not recognised.
Route(type) ==
    CASE type \in {"customer.subscription.created", "customer.subscription.updated",
                   "customer.subscription.deleted"} -> "subscriptionEventService"
      [] type = "checkout.session.completed" -> "checkoutSessionEventService"
      [] OTHER -> "none"

\* Events are applied in the order they arrive.
IsNewer_ArrivalOrder(req, row) == TRUE

\* Subscription translator: the event is later than what is stored.
IsNewer(req, row) == req.createdAt > row.updatedAt

\* No event counts as handled.
AlreadyHandled_Never(id) == FALSE

\* Checkout translator: the event was handled before.
AlreadyHandled(id) == id \in processedEvents

\* sendSignupEmail(email): one call of sendEmailWithMagicLink.
sendSignupEmail(email) ==
    [email |-> email, requestedType |-> "signup-paid",
     options |-> [forceEmailType |-> TRUE]]

\* the response to a request, and the translator that was invoked for it
Delivery(req, response, translator) ==
    [id |-> req.id, variant |-> req.variant, response |-> response,
     translator |-> translator]

InitInbound ==
    /\ StripeIdle /\ CommentingIdle /\ ContainersIdle /\ ButtonIdle /\ InboundIdle
    /\ TwinIdle /\ ValidatorIdle

\* The endpoint receives a request and handles it to the end.
WebhookController_handle(req) ==
    /\ Len(delivered) < MaxDeliveries
    /\ IF ~VerifySignature(req)
       THEN /\ delivered' = Append(delivered, Delivery(req, "400", "none"))
            /\ UNCHANGED <<subscriptions, members, processedEvents, signupEmails>>
       ELSE LET translator == Route(req.type)
            IN  /\ delivered' = Append(delivered, Delivery(req, "200", translator))
                /\ CASE translator = "subscriptionEventService" ->
                          /\ subscriptions' =
                               IF IsNewer(req, subscriptions[req.payload.subscription])
                               THEN [subscriptions EXCEPT ![req.payload.subscription] =
                                        [status |-> req.payload.status,
                                         updatedAt |-> req.createdAt]]
                               ELSE subscriptions
                          /\ UNCHANGED <<members, processedEvents, signupEmails>>
                     [] translator = "checkoutSessionEventService" ->
                          IF AlreadyHandled(req.id)
                          THEN UNCHANGED <<subscriptions, members, processedEvents,
                                           signupEmails>>
                          ELSE /\ members' = members \cup {req.payload.email}
                               /\ signupEmails' =
                                    Append(signupEmails, sendSignupEmail(req.payload.email))
                               /\ processedEvents' = processedEvents \cup {req.id}
                               /\ UNCHANGED subscriptions
                     [] OTHER ->
                          UNCHANGED <<subscriptions, members, processedEvents,
                                      signupEmails>>
    /\ UNCHANGED <<stripe, commentingState, containerState, buttonState,
                 twinState, validatorState>>

\* The translator of a verified event fails: nothing is written, the event is
\* not marked as handled, the provider will send it again.
TranslatorFailed(req) ==
    /\ Len(delivered) < MaxDeliveries
    /\ VerifySignature(req)
    /\ Route(req.type) # "none"
    /\ delivered' = Append(delivered, Delivery(req, "500", Route(req.type)))
    /\ UNCHANGED <<subscriptions, members, processedEvents, signupEmails>>
    /\ UNCHANGED <<stripe, commentingState, containerState, buttonState,
                 twinState, validatorState>>

NextInbound ==
    \/ \E req \in Requests : WebhookController_handle(req)
    \/ \E req \in Requests : TranslatorFailed(req)

SpecInbound == InitInbound /\ [][NextInbound]_vars

\* a request arrives in this step
Arrives == Len(delivered') = Len(delivered) + 1
Arrival == delivered'[Len(delivered')]
DomainUnchanged == UNCHANGED <<subscriptions, members, processedEvents, signupEmails>>

\* the deliveries of subscription s that its translator applied
Applied(s) ==
    {i \in DOMAIN delivered :
        /\ delivered[i].response = "200"
        /\ delivered[i].translator = "subscriptionEventService"
        /\ EventOf(delivered[i].id).payload.subscription = s}

\* --------------------------------------------------------------------- C21
\* C21: a delivery of an event that was already delivered and handled leaves
\* the subscriptions, the members and the signup e-mails as they were, and
\* the signup e-mail of a checkout is sent at most once however often its
\* completion event is delivered.
C21_DuplicateDeliveryChangesNothing ==
    [][Arrives
       => /\ (\E i \in DOMAIN delivered :
                 delivered[i].id = Arrival.id /\ delivered[i].response = "200")
             => DomainUnchanged
          /\ \A m \in members' :
                Cardinality({i \in DOMAIN signupEmails' : signupEmails'[i].email = m}) = 1]_vars

C21_Witness ==
    /\ Len(delivered) = 3
    /\ \A i \in DOMAIN delivered :
          /\ delivered[i].id = "evt_4"
          /\ delivered[i].response = IF i = 1 THEN "500" ELSE "200"
    /\ Len(signupEmails) = 1
    /\ members = {"a@example.com"}

\* --------------------------------------------------------------------- C22
\* C22: a request whose payload was altered after signing, or whose signed
\* timestamp is older than the tolerance, is answered with a rejection, no
\* translator is invoked for it and no local state changes.
C22_BadSignatureRejected ==
    [][(Arrives /\ Arrival.variant \in {"tampered", "expired"})
       => /\ Arrival.response = "400"
          /\ Arrival.translator = "none"
          /\ DomainUnchanged]_vars

C22_Witness ==
    /\ Len(delivered) = 3
    /\ delivered[1] = [id |-> "evt_1", variant |-> "delayed", response |-> "200",
                       translator |-> "subscriptionEventService"]
    /\ delivered[2] = [id |-> "evt_3", variant |-> "expired", response |-> "400",
                       translator |-> "none"]
    /\ delivered[3] = [id |-> "evt_2", variant |-> "tampered", response |-> "400",
                       translator |-> "none"]
    /\ subscriptions["sub_1"] = [status |-> "active", updatedAt |-> 1]

\* --------------------------------------------------------------------- C23
\* C23: whatever the order in which the events of a subscription arrive, the
\* stored status is that of the applied event with the latest provider
\* timestamp.
C23_LatestTimestampWins ==
    \A s \in SubscriptionIds :
        IF Applied(s) = {}
        THEN subscriptions[s] = NoSubscription
        ELSE LET latest == CHOOSE i \in Applied(s) :
                               \A j \in Applied(s) :
                                   EventOf(delivered[j].id).createdAt
                                     <= EventOf(delivered[i].id).createdAt
             IN  /\ subscriptions[s].status = EventOf(delivered[latest].id).payload.status
                 /\ subscriptions[s].updatedAt = EventOf(delivered[latest].id).createdAt

C23_Witness ==
    /\ Len(delivered) = 3
    /\ delivered[1].id = "evt_3" /\ delivered[1].response = "200"
    /\ delivered[2].id = "evt_1" /\ delivered[2].response = "200"
    /\ delivered[3].id = "evt_2" /\ delivered[3].response = "200"
    /\ subscriptions["sub_1"] = [status |-> "canceled", updatedAt |-> 3]
\* ================================================= the two implementations
\* billing-portal-manager.js and its TypeScript version are each started,
\* configured, on the same cached id, against a facade and a settings model
\* that answer by the same script; what each one did is put side by side.
ConfigurationIds == {Str("bpc_1"), Str("bpc_2")}

\* settingsCache.get(CONFIGURATION_ID_SETTING): string | null
CachedIds == {Null, Str("")} \cup {Str("bpc_1")}

ErrorWithCode(code) == Obj([type |-> Str("StripeError"), code |-> Str(code)])
ErrorWithoutCode == Obj([type |-> Str("Error")])

\* what an awaited call of the facade may reject with
Throwables ==
    {ErrorWithCode("resource_missing"), ErrorWithCode("rate_limit"), ErrorWithoutCode,
     Str("resource_missing"), Null, Undefined}

FacadeAnswers ==
    {Returned(Obj([id |-> i])) : i \in ConfigurationIds} \cup {Threw(e) : e \in Throwables}
EditAnswers == {Returned(Undefined), Threw(ErrorWithCode("ER_LOCK_WAIT_TIMEOUT"))}

\* how updateBillingPortalConfiguration, createBillingPortalConfiguration and
\* SettingsModel.edit answer
Scripts == [update : FacadeAnswers, create : FacadeAnswers, edit : EditAnswers]

TwinTitle == "Acme"
TwinUrl == "https://a.test/"

\* the condition of the catch block, JavaScript: err.code === 'resource_missing'
\* (reading a property of null or undefined throws a TypeError)
js_IsResourceMissing(err) ==
    IF err.type \in {"null", "undefined"}
    THEN Threw(TypeError)
    ELSE Returned(Get(err, "code") = Str("resource_missing"))

\* the condition of the catch block, TypeScript:
\* err && typeof err === 'object' && 'code' in err && err.code === 'resource_missing'
ts_IsResourceMissing(err) ==
    Returned(/\ Truthy(err)
             /\ err.type = "object"
             /\ "code" \in DOMAIN err.fields
             /\ Get(err, "code") = Str("resource_missing"))

\* await this.api.createBillingPortalConfiguration(this.getConfigurationOptions());
\* return configuration.id
CreateAndReturn(before, script) ==
    [calls |-> Append(before, [op |-> "create", id |-> Undefined,
                               options |-> getConfigurationOptions(FALSE, TwinTitle, TwinUrl)]),
     result |-> IF script.create.threw THEN script.create
                ELSE Returned(Get(script.create.value, "id"))]

\* the condition of the catch block of a version, "js" or "ts"
IsMissing(version, err) ==
    IF version = "js" THEN js_IsResourceMissing(err) ELSE ts_IsResourceMissing(err)

\* createOrUpdateConfiguration(id) of a version
createOrUpdateConfiguration(version, id, script) ==
    IF ~Truthy(id)
    THEN CreateAndReturn(<<>>, script)
    ELSE LET update == <<[op |-> "update", id |-> id,
                          options |-> getConfigurationOptions(TRUE, TwinTitle, TwinUrl)]>>
         IN  IF ~script.update.threw
             THEN [calls |-> update, result |-> Returned(Get(script.update.value, "id"))]
             ELSE LET missing == IsMissing(version, script.update.value)
                  IN  IF missing.threw THEN [calls |-> update, result |-> missing]
                      ELSE IF missing.value THEN CreateAndReturn(update, script)
                      ELSE [calls |-> update, result |-> script.update]

\* start() of a configured manager of a version
StartConfigured(version, cachedId, script) ==
    LET reconciled == createOrUpdateConfiguration(version, cachedId, script)
    IN  IF reconciled.result.threw
        THEN [calls |-> reconciled.calls, writes |-> <<>>, result |-> reconciled.result]
        ELSE IF ShouldPersist(reconciled.result.value, cachedId)
        THEN [calls |-> reconciled.calls, writes |-> <<reconciled.result.value>>,
              result |-> script.edit]
        ELSE [calls |-> reconciled.calls, writes |-> <<>>, result |-> Returned(Undefined)]

js_start(cachedId, script) == StartConfigured("js", cachedId, script)
ts_start(cachedId, script) == StartConfigured("ts", cachedId, script)

InitTwin ==
    /\ StripeIdle /\ CommentingIdle /\ ContainersIdle /\ ButtonIdle /\ InboundIdle
    /\ ValidatorIdle
    /\ twin \in [id : CachedIds, script : Scripts,
                 js : {NoObservation}, ts : {NoObservation}]

\* The JavaScript manager is started.
RunJs ==
    /\ twin.script # NoScript
    /\ twin.js = NoObservation
    /\ twin' = [twin EXCEPT !.js = js_start(twin.id, twin.script)]
    /\ UNCHANGED <<stripe, commentingState, containerState, buttonState, inboundState,
                   validatorState>>

\* The TypeScript manager is started.
RunTs ==
    /\ twin.script # NoScript
    /\ twin.ts = NoObservation
    /\ twin' = [twin EXCEPT !.ts = ts_start(twin.id, twin.script)]
    /\ UNCHANGED <<stripe, commentingState, containerState, buttonState, inboundState,
                   validatorState>>

NextTwin ==
    \/ RunJs
    \/ RunTs

SpecTwin == InitTwin /\ [][NextTwin]_vars

BothStarted == twin.js # NoObservation /\ twin.ts # NoObservation

\* --------------------------------------------------------------------- C33
\* C33 as stated: for every cached id and every answer of the facade
\* (success, an error with code resource_missing, an error object with
\* another code, a thrown value that is not an object, null and undefined
\* included) the JavaScript and the TypeScript manager make the same facade
\* calls and the same settings write and return or throw the same value.
C33_JsTsEquivalent ==
    BothStarted => twin.js = twin.ts

\* ===================================================== commenting validator
\* The input validator of the commenting API, disable(apiConfig, frame): a
\* request arrives as a frame, the validator checks it against the schema and
\* then reads frame.data.expires_at.
SchemaViolation ==
    [type |-> "error", name |-> "ValidationError", message |-> "Validation failed"]
InvalidExpiresAt ==
    [type |-> "error", name |-> "ValidationError",
     message |-> "expires_at must be a valid ISO 8601 date string"]

\* frame.data.expires_at?: string | Date
ExpiresAtInputs ==
    {Null, Str(""), Str("not-a-date"), InvalidDate}
      \cup {Str(IsoText(t)) : t \in Times} \cup {Str(DateText(t)) : t \in Times}
      \cup {DateOf(t) : t \in Times}
FrameReasons == {Null, Str(""), Str("spam")}

Frames ==
    {[data |-> Obj([reason |-> r])] : r \in FrameReasons}
      \cup {[data |-> Obj([reason |-> r, expires_at |-> v])] :
              r \in FrameReasons, v \in ExpiresAtInputs}

\* new Date(frame.data.expires_at)
NewDateOf(value) == IF value.type = "Date" THEN value ELSE NewDate(value)

\* frame.data.expires_at = parsed
WithExpiresAt(f, parsed) ==
    [data |-> Obj([k \in DOMAIN f.data.fields \cup {"expires_at"} |->
                      IF k = "expires_at" THEN parsed ELSE f.data.fields[k]])]

InitValidator ==
    /\ StripeIdle /\ CommentingIdle /\ ContainersIdle /\ ButtonIdle /\ InboundIdle
    /\ TwinIdle /\ ValidatorIdle

\* A disable request arrives.
Receive(f) ==
    /\ validation.pc \in {"idle", "done"}
    /\ frame # f
    /\ frame' = f
    /\ validation' = ValidationIdle
    /\ UNCHANGED <<stripe, commentingState, containerState, buttonState, inboundState,
                   twinState>>

\* disable(apiConfig, frame) up to its await: jsonSchema.validate is called.
Validator_disable ==
    /\ validation.pc = "idle"
    /\ frame # NoFrame
    /\ validation' = [ValidationIdle EXCEPT !.pc = "schema", !.before = frame,
                                            !.trace = <<"jsonSchema.validate">>]
    /\ UNCHANGED frame
    /\ UNCHANGED <<stripe, commentingState, containerState, buttonState, inboundState,
                   twinState>>

\* The date is checked, and the text is left in the frame.
SchemaResolved_KeepsText ==
    /\ validation.pc = "schema"
    /\ LET expires_at == Get(frame.data, "expires_at")
       IN  IF Truthy(expires_at)
           THEN LET parsed == NewDateOf(expires_at)
                IN  /\ validation' =
                           IF IsNaNTime(parsed)
                           THEN [validation EXCEPT !.pc = "done", !.outcome = "threw",
                                                   !.thrown = InvalidExpiresAt,
                                                   !.trace = Append(@, "new Date")]
                           ELSE [validation EXCEPT !.pc = "done", !.outcome = "ok",
                                                   !.trace = Append(@, "new Date")]
                    /\ UNCHANGED frame
           ELSE /\ validation' = [validation EXCEPT !.pc = "done", !.outcome = "ok"]
                /\ UNCHANGED frame
    /\ UNCHANGED <<stripe, commentingState, containerState, buttonState, inboundState,
                   twinState>>

\* await jsonSchema.validate(apiConfig, frame) resolves: expires_at, if given,
\* is parsed, and replaced by the Date or refused.
SchemaResolved ==
    /\ validation.pc = "schema"
    /\ LET expires_at == Get(frame.data, "expires_at")
       IN  IF Truthy(expires_at)
           THEN LET parsed == NewDateOf(expires_at)
                IN  IF IsNaNTime(parsed)
                    THEN /\ validation' = [validation EXCEPT !.pc = "done", !.outcome = "threw",
                                                             !.thrown = InvalidExpiresAt,
                                                             !.trace = Append(@, "new Date")]
                         /\ UNCHANGED frame
                    ELSE /\ frame' = WithExpiresAt(frame, parsed)
                         /\ validation' = [validation EXCEPT !.pc = "done", !.outcome = "ok",
                                                             !.trace = Append(@, "new Date")]
           ELSE /\ validation' = [validation EXCEPT !.pc = "done", !.outcome = "ok"]
                /\ UNCHANGED frame
    /\ UNCHANGED <<stripe, commentingState, containerState, buttonState, inboundState,
                   twinState>>

\* await jsonSchema.validate(apiConfig, frame) rejects: disable rejects.
SchemaRejected ==
    /\ validation.pc = "schema"
    /\ validation' = [validation EXCEPT !.pc = "done", !.outcome = "threw",
                                        !.thrown = SchemaViolation]
    /\ UNCHANGED frame
    /\ UNCHANGED <<stripe, commentingState, containerState, buttonState, inboundState,
                   twinState>>

NextValidator ==
    \/ \E f \in Frames : Receive(f)
    \/ Validator_disable
    \/ SchemaResolved
    \/ SchemaRejected

SpecValidator == InitValidator /\ [][NextValidator]_vars

\* what the request gave as expires_at
GivenExpiresAt == Get(validation.before.data, "expires_at")
ExpiresAtGiven == GivenExpiresAt \notin {Undefined, Null, Str("")}
\* the instants a given expires_at denotes: one, or none when it cannot be read
InstantsOf(given) ==
    {t \in Times : given \in {Str(IsoText(t)), Str(DateText(t)), DateOf(t)}}

\* --------------------------------------------------------------------- C36
\* C36: the validator runs the schema validation first; when that fails
\* nothing else is done. Then, when expires_at is present and not empty, a
\* value that can be read as a date is replaced in the frame by that Date,
\* and one that cannot makes the validator throw a ValidationError with the
\* frame as it was; when expires_at is absent or empty the frame is left as
\* it was and the validator returns.
C36_SchemaThenExpiresAt ==
    /\ validation.pc = "schema"
       => (frame = validation.before /\ validation.trace = <<"jsonSchema.validate">>)
    /\ validation.pc = "done"
       => /\ validation.trace[1] = "jsonSchema.validate"
          /\ IF validation.thrown = SchemaViolation
             THEN /\ validation.outcome = "threw"
                  /\ validation.trace = <<"jsonSchema.validate">>
                  /\ frame = validation.before
             ELSE IF ~ExpiresAtGiven
             THEN /\ validation.outcome = "ok"
                  /\ frame = validation.before
             ELSE IF InstantsOf(GivenExpiresAt) # {}
             THEN /\ validation.outcome = "ok"
                  /\ \E t \in InstantsOf(GivenExpiresAt) :
                         /\ Get(frame.data, "expires_at") = DateOf(t)
                         /\ frame = WithExpiresAt(validation.before, DateOf(t))
                  /\ Get(frame.data, "reason") = Get(validation.before.data, "reason")
             ELSE /\ validation.outcome = "threw"
                  /\ validation.thrown = InvalidExpiresAt
                  /\ frame = validation.before

C36_Witness ==
    /\ validation.pc = "done" /\ validation.outcome = "ok"
    /\ GivenExpiresAt = Str(IsoText(1))
    /\ Get(frame.data, "expires_at") = DateOf(1)
    /\ Get(frame.data, "reason") = Str("spam")

====
